---- MODULE Spec2Model ----
(***************************************************************************)
(* aws-auto-env: the credential synchronisation engine.                    *)
(*                                                                         *)
(*   lib/aws-credentials.js  getCredentials, getCredentialsAsEnvVars,      *)
(*                           writeCredentialsToFile, isAwsCliAvailable     *)
(*   lib/postman-api.js      updateAwsCredentials, the module-level apiKey *)
(*   lib/settings-manager.js the settings store                            *)
(*   lib/logger.js           log, logCommand, logError                     *)
(*   aws-auto-env.js         handleRefresh, handlePostmanSync, handleLog,  *)
(*                           the interactive loop                          *)
(*                                                                         *)
(* Seven specifications share the module:                                    *)
(*   SpecFetch     one call of getCredentials / getCredentialsAsEnvVars    *)
(*                 against a scripted provider CLI;                        *)
(*   SpecMerge     writeCredentialsToFile applied twice to one file;       *)
(*   Spec          a one-shot invocation of `refresh` or `postman sync`,   *)
(*                 with the audit log on or off;                           *)
(*   SpecRepl      lines entered in the interactive loop;                  *)
(*   SpecSettings  settings operations of one process;                     *)
(*   SpecApi       one call of the Postman client on a shared API;         *)
(*   SpecLog       calls of the logger.                                    *)
(*                                                                         *)
(* Text the program inspects is a sequence of symbols.  Provider error     *)
(* text is a sequence of characters.  A line of a destination file is a    *)
(* sequence whose symbols are "=", "#", " " or a word; a word stands for a *)
(* run of characters holding none of those three, and no word of the model *)
(* is a concatenation of others, so equal text means equal sequences.      *)
(***************************************************************************)
EXTENDS Integers, Sequences, FiniteSets, TLC

VARIABLES
    \* ---- SpecFetch: one credential fetch ----
    fetchProfile,     \* profileName argument
    fetchScript,      \* what the provider CLI and `aws sso login` will answer
    fetchCall,        \* the function called, "" before the call
    fetchResult,      \* value returned / error thrown, with the CLI invocations made
    \* ---- SpecMerge: the key/value file merger ----
    mergeFile,        \* destination file: Absent or its content
    mergeCreds,       \* credentials argument (ordered key/value pairs)
    mergeHistory,     \* the file before the first call and after each call
    mergeReturns,     \* what each writeCredentialsToFile call returned
    \* ---- Spec: settings store, file system, remote API, one command ----
    mappings,         \* settings.mappings, in property order
    postmanMappings,  \* settings.postmanMappings, in property order
    postmanApiKey,    \* settings.postman.apiKey
    fs,               \* destination files by path
    remote,           \* Postman environments by id
    command,          \* the command line of the invocation
    pc,               \* position of the running handler
    specificEnvId,    \* argument of `postman sync`
    profileToFiles,   \* handleRefresh: groups, in property order
    entries,          \* handlePostmanSync: selected [id, config] pairs
    gi,               \* index of the current group / entry
    fi,               \* index of the current file in the group
    credentials,      \* credentials of the current group / entry
    currentEnv,       \* updateAwsCredentials: fetched environment
    successCount,
    errorCount,
    outcome,          \* how the command ended
    fetchLog,         \* getCredentialsAsEnvVars calls: profile and result
    writeLog,         \* writeCredentialsToFile calls: path and credentials
    report,           \* per destination console lines: destination and status
    apiLog,           \* requests sent to the Postman API
    \* ---- SpecRepl: the interactive loop ----
    typed,            \* lines the operator has entered
    handlers,         \* command handlers in progress, each at an await
    apiKey,           \* postman-api.js: the module-level apiKey
    requests,         \* requests sent: the command and the key in the header
    \* ---- SpecSettings: the settings store of one process ----
    settingsFile,     \* settings.json: does it exist, and the object it holds
    DEFAULT_SETTINGS, \* settings-manager.js: the module-level default object
    calls,            \* the settings operations performed, with what they returned
    \* ---- the audit log ----
    logging,          \* settings.logging: enabled and logFile
    logFile,          \* the file at logging.logFile: does it exist, and its text
    logCalls,         \* the calls of logger.log made, with the file before and after
    \* ---- SpecApi: one call of the Postman client, the API shared ----
    apiEnvironmentId, \* environmentId argument of the call
    apiAwsProfile,    \* awsProfile argument of `postman add`
    fetchedEnv,       \* <<response.environment>> once the GET request is answered
    apiResult,        \* value returned / error thrown by the postman-api function
    otherRequests     \* changes other users of the API made, and when

fetchVars == <<fetchProfile, fetchScript, fetchCall, fetchResult>>
mergeVars == <<mergeFile, mergeCreds, mergeHistory, mergeReturns>>
storeVars == <<mappings, postmanMappings, postmanApiKey, logging>>
runVars   == <<command, pc, specificEnvId, profileToFiles, entries, gi, fi, credentials,
               currentEnv, successCount, errorCount, outcome>>
logVars   == <<fetchLog, writeLog, report, apiLog>>
replVars  == <<typed, handlers, apiKey, requests>>
settingsVars == <<settingsFile, DEFAULT_SETTINGS, calls>>
loggerVars == <<logFile, logCalls>>
apiVars   == <<apiEnvironmentId, apiAwsProfile, fetchedEnv, apiResult, otherRequests>>
syncVars  == <<storeVars, fs, remote, runVars, logVars, replVars, settingsVars, loggerVars>>
vars      == <<fetchVars, mergeVars, syncVars, apiVars>>

(***************************************************************************)
(* Text helpers (String.prototype.includes / toLowerCase / trim).          *)
(***************************************************************************)
UpperCase == <<"A","B","C","D","E","F","G","H","I","J","K","L","M",
               "N","O","P","Q","R","S","T","U","V","W","X","Y","Z">>
LowerCase == <<"a","b","c","d","e","f","g","h","i","j","k","l","m",
               "n","o","p","q","r","s","t","u","v","w","x","y","z">>

LowerChar(c) ==
    IF \E i \in 1..Len(UpperCase) : UpperCase[i] = c
    THEN LowerCase[CHOOSE i \in 1..Len(UpperCase) : UpperCase[i] = c]
    ELSE c

ToLowerCase(text) == [i \in 1..Len(text) |-> LowerChar(text[i])]

Includes(text, phrase) ==
    \E i \in 0..(Len(text) - Len(phrase)) :
        SubSeq(text, i + 1, i + Len(phrase)) = phrase

(***************************************************************************)
(* lib/aws-credentials.js: getCredentials                                  *)
(***************************************************************************)
TOKEN_HAS_EXPIRED == <<"T","o","k","e","n"," ","h","a","s"," ","e","x","p","i","r","e","d">>
REFRESH_FAILED == <<"r","e","f","r","e","s","h"," ","f","a","i","l","e","d">>
SSO_SESSION == <<"S","S","O"," ","s","e","s","s","i","o","n">>
SSO_LOWER == <<"s","s","o">>

\* const isSsoExpired = errorMessage.includes(...) || ... (lines 50-53)
IsSsoExpired(errorMessage) ==
    \/ Includes(errorMessage, TOKEN_HAS_EXPIRED)
    \/ Includes(errorMessage, REFRESH_FAILED)
    \/ Includes(errorMessage, SSO_SESSION)
    \/ Includes(ToLowerCase(errorMessage), SSO_LOWER)

\* stderrOutput || stdoutOutput || awsError.message || "" (lines 46-48)
ErrorMessage(awsError) ==
    IF awsError.stderr # <<>> THEN awsError.stderr
    ELSE IF awsError.stdout # <<>> THEN awsError.stdout
    ELSE awsError.message

\* Error objects: the fixed head of the message, the profile it names, the
\* message it wraps (detail) and the provider text it quotes.
Error(prefix, profile, detail, text) ==
    [prefix |-> prefix, profile |-> profile, detail |-> detail, text |-> text]

NoError == Error("", "", "", <<>>)

NoCredentials ==
    [AWS_ACCESS_KEY_ID |-> "", AWS_SECRET_ACCESS_KEY |-> "",
     AWS_SESSION_TOKEN |-> "", EXPIRATION |-> ""]

Returned(creds, trace) ==
    [ok |-> TRUE, credentials |-> creds, error |-> NoError, trace |-> trace]

Thrown(error, trace) ==
    [ok |-> FALSE, credentials |-> NoCredentials, error |-> error, trace |-> trace]

\* catch (error) { ... } of getCredentials (lines 82-90): errors already
\* formatted pass, anything else is wrapped.
OuterCatch(profileName, error) ==
    IF error.prefix \in {"Failed to get credentials", "SSO login failed"}
    THEN error
    ELSE Error("Failed to get credentials", profileName, error.prefix, <<>>)

\* Variant of ParseOutput without the check of the required fields.
ParseOutputUnvalidated(profileName, output) ==
    IF ~output.json
    THEN Thrown(OuterCatch(profileName, Error("SyntaxError", "", "", <<>>)), <<"exec">>)
    ELSE Returned([AWS_ACCESS_KEY_ID |-> output.AccessKeyId,
                   AWS_SECRET_ACCESS_KEY |-> output.SecretAccessKey,
                   AWS_SESSION_TOKEN |-> output.SessionToken,
                   EXPIRATION |-> output.Expiration],
                  <<"exec">>)

\* Lines 66-81: JSON.parse of the output, field mapping and validation.
ParseOutput(profileName, output) ==
    IF ~output.json
    THEN Thrown(OuterCatch(profileName, Error("SyntaxError", "", "", <<>>)), <<"exec">>)
    ELSE IF output.AccessKeyId = "" \/ output.SecretAccessKey = ""
    THEN Thrown(OuterCatch(profileName,
                    Error("Invalid credentials format returned from AWS CLI", "", "", <<>>)),
                <<"exec">>)
    ELSE Returned([AWS_ACCESS_KEY_ID |-> output.AccessKeyId,
                   AWS_SECRET_ACCESS_KEY |-> output.SecretAccessKey,
                   AWS_SESSION_TOKEN |-> output.SessionToken,
                   EXPIRATION |-> output.Expiration],
                  <<"exec">>)

\* Variants of getCredentials: one that does not pass the retry flag on (it
\* logs in and retries once more when the retry fails on expiry again), one
\* that retries whether or not `aws sso login` succeeded.
FetchVariant(profileName, script, flagDropped, loginUnchecked) ==
    LET failed(response, trace) ==
            Thrown(Error("Failed to get credentials", profileName, "",
                         ErrorMessage(response)), trace)
        parsed(response, before) ==
            LET r == ParseOutput(profileName, response)
            IN  [r EXCEPT !.trace = before \o @]
        second(before) ==
            IF ~script.second.failed THEN parsed(script.second, before)
            ELSE IF flagDropped /\ IsSsoExpired(ErrorMessage(script.second))
            THEN failed(script.second, before \o <<"exec", "login", "exec">>)
            ELSE failed(script.second, before \o <<"exec">>)
    IN  IF profileName = ""
        THEN Thrown(Error("Profile name is required", "", "", <<>>), <<>>)
        ELSE IF ~script.first.failed THEN parsed(script.first, <<>>)
        ELSE IF ~IsSsoExpired(ErrorMessage(script.first))
        THEN failed(script.first, <<"exec">>)
        ELSE IF script.login \/ loginUnchecked THEN second(<<"exec", "login">>)
        ELSE Thrown(Error("SSO login failed", profileName, "", <<>>),
                    <<"exec", "login">>)

GetCredentialsFlagDropped(profileName, retryAfterLogin, script) ==
    FetchVariant(profileName, script, TRUE, FALSE)

GetCredentialsLoginUnchecked(profileName, retryAfterLogin, script) ==
    FetchVariant(profileName, script, FALSE, TRUE)

\* The trace lists the child processes started, in order: "exec" is
\* `aws configure export-credentials`, "login" is `aws sso login`.
RECURSIVE GetCredentials(_, _, _)
GetCredentials(profileName, retryAfterLogin, script) ==
    IF profileName = ""
    THEN Thrown(Error("Profile name is required", "", "", <<>>), <<>>)
    ELSE LET response == IF retryAfterLogin THEN script.second ELSE script.first
         IN  IF response.failed
             THEN LET errorMessage == ErrorMessage(response)
                  IN  IF IsSsoExpired(errorMessage) /\ ~retryAfterLogin
                      THEN IF script.login
                           THEN LET retry == GetCredentials(profileName, TRUE, script)
                                IN  [retry EXCEPT
                                        !.trace = <<"exec", "login">> \o @,
                                        !.error = IF retry.ok THEN @
                                                  ELSE OuterCatch(profileName, @)]
                           ELSE Thrown(OuterCatch(profileName,
                                           Error("SSO login failed", profileName, "", <<>>)),
                                       <<"exec", "login">>)
                      ELSE Thrown(OuterCatch(profileName,
                                      Error("Failed to get credentials", profileName,
                                            "", errorMessage)),
                                  <<"exec">>)
             ELSE ParseOutput(profileName, response)

\* getCredentialsAsEnvVars (lines 114-125): an object literal, so the keys
\* come in this order; the session token only when truthy.
EnvVars(creds) ==
    <<  <<"AWS_ACCESS_KEY_ID", creds.AWS_ACCESS_KEY_ID>>,
        <<"AWS_SECRET_ACCESS_KEY", creds.AWS_SECRET_ACCESS_KEY>> >>
    \o (IF creds.AWS_SESSION_TOKEN # ""
        THEN << <<"AWS_SESSION_TOKEN", creds.AWS_SESSION_TOKEN>> >>
        ELSE <<>>)

NoEnvVars == <<>>

GetCredentialsAsEnvVars(profileName, script) ==
    LET got == GetCredentials(profileName, FALSE, script)
    IN  [ok |-> got.ok,
         credentials |-> IF got.ok THEN EnvVars(got.credentials) ELSE NoEnvVars,
         error |-> got.error,
         trace |-> got.trace]

(***************************************************************************)
(* The scripted provider: what each child process answers.                 *)
(***************************************************************************)
MsgTokenExpired == <<"E","r","r","o","r",":"," ","T","o","k","e","n"," ","h","a","s"," ","e","x","p","i","r","e","d">>
MsgTokenExpiredLower == <<"e","r","r","o","r",":"," ","t","o","k","e","n"," ","h","a","s"," ","e","x","p","i","r","e","d">>
MsgRefreshFailed == <<"T","o","k","e","n"," ","r","e","f","r","e","s","h"," ","f","a","i","l","e","d">>
MsgRefreshFailedUpper == <<"R","E","F","R","E","S","H"," ","F","A","I","L","E","D">>
MsgSsoSession == <<"T","h","e"," ","S","S","O"," ","s","e","s","s","i","o","n"," ","i","s"," ","i","n","v","a","l","i","d">>
MsgSsoGeneric == <<"E","r","r","o","r"," ","l","o","a","d","i","n","g"," ","S","s","o"," ","T","o","k","e","n">>
MsgNoProfile == <<"T","h","e"," ","c","o","n","f","i","g"," ","p","r","o","f","i","l","e"," ","c","o","u","l","d"," ","n","o","t"," ","b","e"," ","f","o","u","n","d">>
MsgCommandFailed == <<"C","o","m","m","a","n","d"," ","f","a","i","l","e","d">>

\* A response of `aws configure export-credentials`: failed with the three
\* texts of the error object, or exited 0 with an output (json: does it
\* parse; the four fields, "" when missing; text: free text it also holds).
Response(failed, stderr, stdout, message, json, key, secret, token, text) ==
    [failed |-> failed, stderr |-> stderr, stdout |-> stdout, message |-> message,
     json |-> json, AccessKeyId |-> key, SecretAccessKey |-> secret,
     SessionToken |-> token, Expiration |-> "", text |-> text]

Failure(stderr, stdout, message) ==
    Response(TRUE, stderr, stdout, message, FALSE, "", "", "", <<>>)

Output(json, key, secret, token, text) ==
    Response(FALSE, <<>>, <<>>, <<>>, json, key, secret, token, text)

KeyIds == {"AKIA1", "AKIA2"}

Failures ==
    {Failure(m, <<>>, MsgCommandFailed) :
        m \in {MsgTokenExpired, MsgTokenExpiredLower, MsgRefreshFailed,
               MsgRefreshFailedUpper, MsgSsoSession, MsgSsoGeneric, MsgNoProfile}}
    \cup {Failure(<<>>, MsgSsoSession, MsgCommandFailed),
          Failure(<<>>, <<>>, MsgCommandFailed),
          Failure(<<>>, <<>>, <<>>)}

ValidOutputs ==
    {Output(TRUE, k, "secret", t, <<>>) : k \in KeyIds, t \in {"", "token"}}

InvalidOutputs ==
    {Output(TRUE, "", "secret", "", <<>>),
     Output(TRUE, "AKIA1", "", "token", MsgSsoSession),
     Output(TRUE, "", "", "", MsgTokenExpired),
     Output(FALSE, "", "", "", MsgSsoGeneric)}

Responses == Failures \cup ValidOutputs \cup InvalidOutputs

Scripts == [first : Responses, login : BOOLEAN, second : Responses]

FetchProfiles == {"dev", ""}

NoScript == [first |-> Failure(<<>>, <<>>, <<>>), login |-> FALSE,
             second |-> Failure(<<>>, <<>>, <<>>)]

NoResult == [ok |-> FALSE, credentials |-> NoEnvVars, error |-> NoError, trace |-> <<>>]

(***************************************************************************)
(* lib/aws-credentials.js: writeCredentialsToFile                          *)
(*                                                                         *)
(* A file is Absent or its content.  Content is kept as the sequence       *)
(* content.split("\n") yields, which is never empty: the empty file is the *)
(* one empty line.                                                         *)
(***************************************************************************)
\* A value no content equals.
Absent == << <<"ENOENT">> >>

EmptyLine == <<>>

Whitespace == {" ", "\r"}

\* RegExp `.` matches anything but a line terminator.
LineTerminators == {"\r"}

RECURSIVE TrimStart(_)
TrimStart(line) ==
    IF line # <<>> /\ Head(line) \in Whitespace THEN TrimStart(Tail(line)) ELSE line

RECURSIVE TrimEnd(_)
TrimEnd(line) ==
    IF line # <<>> /\ line[Len(line)] \in Whitespace
    THEN TrimEnd(SubSeq(line, 1, Len(line) - 1))
    ELSE line

Trim(line) == TrimEnd(TrimStart(line))

\* !line.trim() || line.trim().startsWith("#") (line 160)
IsBlankOrComment(line) == Trim(line) = <<>> \/ Head(Trim(line)) = "#"

FirstEquals(line) ==
    IF \E i \in 1..Len(line) : line[i] = "="
    THEN CHOOSE i \in 1..Len(line) :
            line[i] = "=" /\ \A j \in 1..(i - 1) : line[j] # "="
    ELSE 0

\* line.match(/^([^=]+)=(.*)$/) (line 165): one or more symbols other than
\* "=", the first "=", then a rest without line terminators.
Matches(line) ==
    /\ FirstEquals(line) >= 2
    /\ \A j \in (FirstEquals(line) + 1)..Len(line) : line[j] \notin LineTerminators

\* match[1].trim() (line 167)
MatchKey(line) == Trim(SubSeq(line, 1, FirstEquals(line) - 1))

\* Credentials are the object's own enumerable properties in key order.
Keys(creds) == [i \in 1..Len(creds) |-> creds[i][1]]

\* credentials.hasOwnProperty(key): the key text is exactly a property name.
HasOwnProperty(creds, key) == \E i \in 1..Len(creds) : key = <<creds[i][1]>>

Get(creds, key) == creds[CHOOSE i \in 1..Len(creds) : key = <<creds[i][1]>>][2]

\* `${key}=${credentials[key]}`
KeyValueLine(name, value) == <<name, "=", value>>

\* Variant of the callback that looks the key up without trimming it.
UpdateLineUntrimmed(creds, line) ==
    IF IsBlankOrComment(line) THEN line
    ELSE IF Matches(line)
            /\ HasOwnProperty(creds, SubSeq(line, 1, FirstEquals(line) - 1))
    THEN KeyValueLine(MatchKey(line)[1], Get(creds, MatchKey(line)))
    ELSE line

\* The callback of lines.map (lines 158-177).
UpdateLine(creds, line) ==
    IF IsBlankOrComment(line) THEN line
    ELSE IF Matches(line) /\ HasOwnProperty(creds, MatchKey(line))
    THEN KeyValueLine(MatchKey(line)[1], Get(creds, MatchKey(line)))
    ELSE line

\* existingKeys after the walk (line 168).
ExistingKeys(lines) ==
    {MatchKey(lines[i]) : i \in {j \in 1..Len(lines) :
                                    ~IsBlankOrComment(lines[j]) /\ Matches(lines[j])}}

\* Variant without the filter: every key of the credentials is new.
NewKeysUnfiltered(creds, existingKeys) == creds

\* Object.keys(credentials).filter(key => !existingKeys.has(key)) (181-183)
NewKeys(creds, existingKeys) ==
    SelectSeq(creds, LAMBDA kv : <<kv[1]>> \notin existingKeys)

\* Lines 184-193: the separator, then one line per new key.
AppendNewKeys(lines, newKeys) ==
    IF newKeys = <<>> THEN lines
    ELSE (IF lines # <<>> /\ lines[Len(lines)] # EmptyLine
          THEN Append(lines, EmptyLine) ELSE lines)
         \o [i \in 1..Len(newKeys) |-> KeyValueLine(newKeys[i][1], newKeys[i][2])]

\* content.split("\n") of what lines.join("\n") wrote.
Join(lines) == IF lines = <<>> THEN <<EmptyLine>> ELSE lines

\* Variant of the merge that rewrites only the first line of each key.
MergedContentFirstOnly(creds, file) ==
    LET lines    == IF file = Absent THEN <<>> ELSE file
        seen(i)  == \E j \in 1..(i - 1) :
                        /\ ~IsBlankOrComment(lines[j]) /\ Matches(lines[j])
                        /\ ~IsBlankOrComment(lines[i]) /\ Matches(lines[i])
                        /\ MatchKey(lines[j]) = MatchKey(lines[i])
        updated  == [i \in 1..Len(lines) |->
                        IF seen(i) THEN lines[i] ELSE UpdateLine(creds, lines[i])]
        existing == IF file = Absent THEN {} ELSE ExistingKeys(lines)
    IN  Join(AppendNewKeys(updated, NewKeys(creds, existing)))

\* Lines 149-196: the content written for a file and a credentials object.
MergedContent(creds, file) ==
    LET lines    == IF file = Absent THEN <<>> ELSE file
        updated  == [i \in 1..Len(lines) |-> UpdateLine(creds, lines[i])]
        existing == IF file = Absent THEN {} ELSE ExistingKeys(lines)
    IN  Join(AppendNewKeys(updated, NewKeys(creds, existing)))

\* What a call evaluates to: the function has no return statement.
Undefined == [defined |-> FALSE, changed |-> FALSE]

\* writeCredentialsToFile(credentials, filePath) on a file system where the
\* file is `file`; ioError: a file operation of the call throws (the file
\* is then left as it was).
WriteCredentialsToFile(creds, filePath, file, ioError) ==
    IF filePath = ""
    THEN [ok |-> FALSE, file |-> file, returned |-> Undefined,
          error |-> "File path is required"]
    ELSE IF ioError
    THEN [ok |-> FALSE, file |-> file, returned |-> Undefined,
          error |-> "Failed to write credentials to file"]
    ELSE [ok |-> TRUE, file |-> MergedContent(creds, file), returned |-> Undefined,
          error |-> ""]

(***************************************************************************)
(* Destination files and credential sets the merger is exercised on.       *)
(***************************************************************************)
MaxLines == 3

MaxMergeCalls == 2

SampleLines ==
    { EmptyLine,
      <<" ">>,
      <<"#", " ", "note">>,
      <<"AWS_ACCESS_KEY_ID", "=", "v1">>,
      <<"AWS_ACCESS_KEY_ID", "=", "v2">>,
      <<"AWS_SECRET_ACCESS_KEY", "=", "v1">>,
      <<"OTHER_VAR", "=", "v1">>,
      <<" ", "AWS_ACCESS_KEY_ID", " ", "=", "v1">>,
      <<"AWS_ACCESS_KEY_ID", "=", "v1", "\r">> }

Contents == UNION {[1..n -> SampleLines] : n \in 1..MaxLines}

FileStates == {Absent} \cup Contents

CredentialSets ==
    { <<>>,
      << <<"AWS_ACCESS_KEY_ID", "v1">> >>,
      << <<"AWS_ACCESS_KEY_ID", "v2">> >>,
      << <<"AWS_ACCESS_KEY_ID", "v2">>, <<"AWS_SECRET_ACCESS_KEY", "v1">> >>,
      << <<"AWS_SECRET_ACCESS_KEY", "v1">>, <<"AWS_ACCESS_KEY_ID", "v2">> >>,
      << <<"AWS_ACCESS_KEY_ID", "v1">>, <<"AWS_SECRET_ACCESS_KEY", "v1">>,
         <<"AWS_SESSION_TOKEN", "v2">> >> }

MergePath == "app.env"

(***************************************************************************)
(* lib/aws-credentials.js: isAwsCliAvailable                               *)
(***************************************************************************)
\* true exactly when `aws --version` ran without throwing (lines 97-107).
IsAwsCliAvailable(versionRuns) == versionRuns

(***************************************************************************)
(* JavaScript objects used as maps: own properties in property order       *)
(* (array-index names ascending, then the other names as inserted), and    *)
(* the names every plain object inherits from Object.prototype.            *)
(***************************************************************************)
ObjectPrototypeNames ==
    {"constructor", "toString", "toLocaleString", "valueOf", "hasOwnProperty",
     "isPrototypeOf", "propertyIsEnumerable", "__proto__"}

ArrayIndexNames == {"7", "12"}

IndexValue(name) == IF name = "7" THEN 7 ELSE 12

\* Does property `a` come before a property `b` defined after it.
Precedes(a, b) ==
    IF a \in ArrayIndexNames /\ b \in ArrayIndexNames
    THEN IndexValue(a) < IndexValue(b)
    ELSE ~(b \in ArrayIndexNames /\ a \notin ArrayIndexNames)

HasOwn(obj, name) == \E i \in 1..Len(obj) : obj[i][1] = name

OwnIndex(obj, name) == CHOOSE i \in 1..Len(obj) : obj[i][1] = name

\* obj[name] = value for a name that is no own property yet.
DefineProperty(obj, name, value) ==
    LET before == SelectSeq(obj, LAMBDA kv : Precedes(kv[1], name))
        after  == SelectSeq(obj, LAMBDA kv : ~Precedes(kv[1], name))
    IN  before \o << <<name, value>> >> \o after

(***************************************************************************)
(* aws-auto-env.js: handleRefresh                                          *)
(***************************************************************************)
\* Lines 199-206: profileToFiles, built from the entries in order.  The
\* test !profileToFiles[profile] reads inherited properties too: for a name
\* of Object.prototype it finds a value that is truthy and has no push, and
\* the push throws a TypeError.
RECURSIVE GroupByProfile(_, _)
GroupByProfile(es, obj) ==
    IF es = <<>> THEN [threw |-> FALSE, groups |-> obj]
    ELSE LET envPath == Head(es)[1]
             profile == Head(es)[2]
         IN  IF HasOwn(obj, profile)
             THEN GroupByProfile(Tail(es),
                      [obj EXCEPT ![OwnIndex(obj, profile)][2] = Append(@, envPath)])
             ELSE IF profile \in ObjectPrototypeNames
             THEN [threw |-> TRUE, groups |-> obj]
             ELSE GroupByProfile(Tail(es), DefineProperty(obj, profile, <<envPath>>))

\* Variant of the CLI check without the return after the error message.
AfterCliCheckNoReturn(available, next) == next

\* Where the handler goes after the CLI check (lines 192-197).
AfterCliCheck(available, next) == IF available THEN next ELSE "done"

\* Variant of the fetch failure branch that handles the group as one item.
FailedGroupOnce(filePaths) ==
    [lines |-> << <<filePaths[1], "failed">> >>, errors |-> 1]

\* Lines 236-241: the console lines and the count for the files of a
\* profile whose credentials could not be fetched.
FailedGroup(filePaths) ==
    [lines |-> [i \in 1..Len(filePaths) |-> <<filePaths[i], "failed">>],
     errors |-> Len(filePaths)]

\* Variant in which a write that throws ends the files of its profile.
AfterFileLeavingGroup(groups, group, file, ok) ==
    IF ok /\ file < Len(groups[group][2])
    THEN [pc |-> "refresh write", gi |-> group, fi |-> file + 1]
    ELSE IF group < Len(groups) THEN [pc |-> "refresh fetch", gi |-> group + 1, fi |-> 0]
    ELSE [pc |-> "refresh complete", gi |-> group, fi |-> 0]

\* The position after the file at `file` of group `group` has been handled,
\* whether its write returned (ok) or threw: forEach goes on to the next
\* file, and after the last one to the next profile.
AfterFile(groups, group, file, ok) ==
    IF file < Len(groups[group][2]) THEN [pc |-> "refresh write", gi |-> group, fi |-> file + 1]
    ELSE IF group < Len(groups) THEN [pc |-> "refresh fetch", gi |-> group + 1, fi |-> 0]
    ELSE [pc |-> "refresh complete", gi |-> group, fi |-> 0]

AfterGroup(groups, group) ==
    IF group < Len(groups) THEN [pc |-> "refresh fetch", gi |-> group + 1, fi |-> 0]
    ELSE [pc |-> "refresh complete", gi |-> group, fi |-> 0]

(***************************************************************************)
(* lib/logger.js: the audit log.                                           *)
(*                                                                         *)
(* The log file is its text, a sequence of symbols in which "\n" ends a    *)
(* line.  A message is a sequence of symbols too; text the program quotes  *)
(* in a message (a path, a profile, what the provider CLI printed) is      *)
(* quoted as it is.                                                        *)
(***************************************************************************)
\* settings.logging: { enabled, logFile }
Logging(enabled, path) == [enabled |-> enabled, logFile |-> path]

\* DEFAULT_SETTINGS.logging
DefaultLogging == Logging(FALSE, "./aws-auto-env.log")

\* The file at logging.logFile: whether it exists, its text, and whether
\* it can be written (its directory can be made, the file opened and
\* appended to).
LogText(text) == [exists |-> TRUE, text |-> text, writable |-> TRUE]

NoLogFile == [exists |-> FALSE, text |-> <<>>, writable |-> TRUE]

Unwritable(file) == [file EXCEPT !.writable = FALSE]

\* fs.appendFileSync(file, text) that succeeds (line 32).
AppendFile(file, text) == [file EXCEPT !.exists = TRUE, !.text = file.text \o text]

\* new Date().toISOString() at the n-th call of log.
Instants == <<"2026-01-01T00:00:01.000Z", "2026-01-01T00:00:02.000Z",
              "2026-01-01T00:00:03.000Z", "2026-01-01T00:00:04.000Z",
              "2026-01-01T00:00:05.000Z", "2026-01-01T00:00:06.000Z",
              "2026-01-01T00:00:07.000Z", "2026-01-01T00:00:08.000Z",
              "2026-01-01T00:00:09.000Z", "2026-01-01T00:00:10.000Z">>

ToISOString(n) == Instants[((n - 1) % Len(Instants)) + 1]

\* `[${timestamp}] ${message}\n` (line 29)
LogMessage(timestamp, message) == <<"[", timestamp, "]", " ">> \o message \o <<"\n">>

\* Variant of log without the try/catch around the write.
LogUncaught(config, file, message, timestamp, writeFails) ==
    IF ~config.enabled THEN [file |-> file, reported |-> FALSE, threw |-> FALSE]
    ELSE IF writeFails THEN [file |-> file, reported |-> FALSE, threw |-> TRUE]
    ELSE [file |-> AppendFile(file, LogMessage(timestamp, message)),
          reported |-> FALSE, threw |-> FALSE]

\* log(message) (lines 20-36).  writeFails: ensureLogDirectory or
\* appendFileSync throws (the file cannot be written).  reported: console.error was called; threw: an
\* exception leaves log.
Log(config, file, message, timestamp, writeFails) ==
    IF ~config.enabled THEN [file |-> file, reported |-> FALSE, threw |-> FALSE]
    ELSE IF writeFails THEN [file |-> file, reported |-> TRUE, threw |-> FALSE]
    ELSE [file |-> AppendFile(file, LogMessage(timestamp, message)),
          reported |-> FALSE, threw |-> FALSE]

\* logCommand (lines 42-44) and logError (lines 50-52): the message.
LogCommand(text) == <<"Command executed: ">> \o text

LogError(text) == <<"ERROR: ">> \o text

\* A number in a template literal.
Decimal == <<"0", "1", "2", "3", "4", "5", "6", "7", "8", "9">>

NumberText(n) == IF n < 10 THEN Decimal[n + 1] ELSE "10+"

\* One call of log: the message, the configuration read, whether the write
\* failed, and the file before and after.
LogCall(message, config, failed, before, after) ==
    [message |-> message, config |-> config, failed |-> failed,
     before |-> before, after |-> after]

\* Logging off (the default) or on.
LoggingConfigs == {DefaultLogging, Logging(TRUE, "./aws-auto-env.log")}

\* The audit log of a one-shot invocation: off, on, or on with a log file
\* that cannot be written while the command runs.
LogSetups ==
    { <<DefaultLogging, NoLogFile>>,
      <<Logging(TRUE, "./aws-auto-env.log"), NoLogFile>>,
      <<Logging(TRUE, "./aws-auto-env.log"), Unwritable(NoLogFile)>> }

\* No log call made yet.
LoggerIdle ==
    /\ logging = DefaultLogging /\ logFile = NoLogFile /\ logCalls = <<>>

(***************************************************************************)
(* The invocation: settings, files and provider the command runs against.  *)
(***************************************************************************)
MaxMappings == 3

PathNames == <<"a.env", "b.env", "c.env", "d.env", "e.env">>

Paths == {PathNames[i] : i \in 1..MaxMappings}

Profiles == {"dev", "prod", "7", "constructor"}

SampleFile ==
    << <<"#", " ", "note">>,
       <<"AWS_ACCESS_KEY_ID", "=", "old">>,
       <<"OTHER_VAR", "=", "v1">> >>

\* A file that already holds the credentials of the first key id.
CurrentFile ==
    << <<"AWS_ACCESS_KEY_ID", "=", "AKIA1">>,
       <<"AWS_SECRET_ACCESS_KEY", "=", "secret">> >>

\* The destination files before the command: every third one is up to
\* date, every second one of the others exists, the rest are absent.
InitialFiles ==
    [p \in Paths |->
        IF \E i \in 1..MaxMappings : PathNames[i] = p /\ i % 3 = 0
        THEN CurrentFile
        ELSE IF \E i \in 1..MaxMappings : PathNames[i] = p /\ i % 2 = 0
        THEN SampleFile ELSE Absent]

\* Provider behaviours the commands are run against: a failure, a login
\* that fails, a success, and an expired session that a login repairs.
SyncScripts ==
    { [first |-> Failure(MsgNoProfile, <<>>, MsgCommandFailed), login |-> FALSE,
       second |-> Failure(<<>>, <<>>, <<>>)],
      [first |-> Failure(MsgSsoSession, <<>>, MsgCommandFailed), login |-> FALSE,
       second |-> Failure(<<>>, <<>>, <<>>)],
      [first |-> Output(TRUE, "AKIA1", "secret", "", <<>>), login |-> FALSE,
       second |-> Failure(<<>>, <<>>, <<>>)],
      [first |-> Failure(MsgTokenExpired, <<>>, MsgCommandFailed), login |-> TRUE,
       second |-> Output(TRUE, "AKIA2", "secret", "token", <<>>)] }

Fetched(profile, result) ==
    [profile |-> profile, ok |-> result.ok, credentials |-> result.credentials]

Written(path, creds, ok) == [path |-> path, credentials |-> creds, ok |-> ok]

RunIdle ==
    /\ specificEnvId = ""
    /\ profileToFiles = <<>> /\ entries = <<>>
    /\ gi = 0 /\ fi = 0 /\ credentials = NoEnvVars /\ currentEnv = <<>>
    /\ successCount = 0 /\ errorCount = 0 /\ outcome = ""
    /\ fetchLog = <<>> /\ writeLog = <<>> /\ report = <<>> /\ apiLog = <<>>

Finish(text) ==
    /\ pc' = "done"
    /\ outcome' = text

\* error.message of an Error: the parts of its text.
Message(error) == <<error.prefix, error.profile, error.detail>> \o error.text

\* What the handler's call of log(message) does.
LogResult(message) ==
    Log(logging, logFile, message, ToISOString(Len(logCalls) + 1), ~logFile.writable)

Logged(message, result) ==
    /\ logFile' = result.file
    /\ logCalls' = Append(logCalls, LogCall(message, logging,
                                            result.reported \/ result.threw,
                                            logFile, result.file))

\* An exception thrown inside a handler's catch block reaches the
\* handler's outermost catch (lines 255-258, 496-499), whose own log call
\* is the last statement of the handler: what it throws is thrown to the
\* caller.
Uncaught == "Thrown to the caller"

AfterLog(result, next) ==
    IF result.threw THEN [pc |-> "done", gi |-> next.gi, fi |-> next.fi] ELSE next

OutcomeAfterLog(result, text) == IF result.threw THEN Uncaught ELSE text

\* Lines 180-209: the checks and the grouping.
RefreshStart ==
    /\ pc = "refresh"
    /\ IF mappings = <<>>
       THEN /\ Finish("No mappings configured")
            /\ UNCHANGED <<profileToFiles, gi, loggerVars>>
       ELSE \E versionRuns \in BOOLEAN :
              LET grouped == GroupByProfile(mappings, <<>>)
                  noCli   == LogError(<<"AWS CLI not available for refresh command">>)
                  failed  == LogError(<<"Refresh command failed: ",
                                        "profileToFiles[profile].push is not a function">>)
              IN  IF ~IsAwsCliAvailable(versionRuns)
                  THEN /\ pc' = IF LogResult(noCli).threw THEN "done"
                                ELSE AfterCliCheck(FALSE, "refresh fetch")
                       /\ outcome' = OutcomeAfterLog(LogResult(noCli),
                                                     "AWS CLI is not available")
                       /\ profileToFiles' = IF pc' = "done" THEN <<>> ELSE grouped.groups
                       /\ gi' = IF pc' = "done" THEN 0 ELSE 1
                       /\ Logged(noCli, LogResult(noCli))
                  ELSE IF grouped.threw
                  THEN /\ Finish(OutcomeAfterLog(LogResult(failed),
                                                 "Error during refresh"))
                       /\ Logged(failed, LogResult(failed))
                       /\ UNCHANGED <<profileToFiles, gi>>
                  ELSE /\ pc' = AfterCliCheck(TRUE, "refresh fetch")
                       /\ profileToFiles' = grouped.groups
                       /\ gi' = 1
                       /\ UNCHANGED <<outcome, loggerVars>>
    /\ UNCHANGED <<command, specificEnvId, entries, fi, credentials, currentEnv,
                   successCount, errorCount>>
    /\ UNCHANGED <<fetchVars, mergeVars, apiVars, replVars, settingsVars, storeVars, fs, remote, logVars>>

\* Lines 215-218 and 234-245: the credentials of the current profile.
RefreshFetch ==
    /\ pc = "refresh fetch"
    /\ \E script \in SyncScripts :
          LET profile   == profileToFiles[gi][1]
              filePaths == profileToFiles[gi][2]
              result    == GetCredentialsAsEnvVars(profile, script)
              failed    == FailedGroup(filePaths)
              message   == LogError(<<"Failed to get credentials for profile ", profile, ": ">>
                                    \o Message(result.error))
              logged    == LogResult(message)
              next      == AfterLog(logged, AfterGroup(profileToFiles, gi))
          IN  /\ fetchLog' = Append(fetchLog, Fetched(profile, result))
              /\ IF result.ok
                 THEN /\ credentials' = result.credentials
                      /\ pc' = "refresh write"
                      /\ fi' = 1
                      /\ UNCHANGED <<gi, errorCount, report, outcome, loggerVars>>
                 ELSE /\ report' = report \o failed.lines
                      /\ errorCount' = errorCount + failed.errors
                      /\ Logged(message, logged)
                      /\ outcome' = OutcomeAfterLog(logged, outcome)
                      /\ pc' = next.pc /\ gi' = next.gi /\ fi' = next.fi
                      /\ UNCHANGED credentials
    /\ UNCHANGED <<command, specificEnvId, profileToFiles, entries, currentEnv,
                   successCount>>
    /\ UNCHANGED <<fetchVars, mergeVars, apiVars, replVars, settingsVars, storeVars, fs, remote, writeLog, apiLog>>

\* Lines 221-233: one file of the current profile.
RefreshWrite ==
    /\ pc = "refresh write"
    /\ \E ioError \in BOOLEAN :
          LET filePath == profileToFiles[gi][2][fi]
              call     == WriteCredentialsToFile(credentials, filePath, fs[filePath], ioError)
              message  == LogError(<<"Failed to write credentials to ", filePath, ": ",
                                     "EACCES: permission denied">>)
              logged   == LogResult(message)
              next     == AfterFile(profileToFiles, gi, fi, call.ok)
              thrown   == AfterLog(logged, next)
          IN  /\ writeLog' = Append(writeLog, Written(filePath, credentials, call.ok))
              /\ fs' = [fs EXCEPT ![filePath] = call.file]
              /\ IF call.ok
                 THEN /\ report' = Append(report, <<filePath, "updated">>)
                      /\ successCount' = successCount + 1
                      /\ pc' = next.pc /\ gi' = next.gi /\ fi' = next.fi
                      /\ UNCHANGED <<errorCount, outcome, loggerVars>>
                 ELSE /\ report' = Append(report, <<filePath, "failed">>)
                      /\ Logged(message, logged)
                      /\ errorCount' = errorCount + 1
                      /\ outcome' = OutcomeAfterLog(logged, outcome)
                      /\ pc' = thrown.pc /\ gi' = thrown.gi /\ fi' = thrown.fi
                      /\ UNCHANGED successCount
    /\ UNCHANGED <<command, specificEnvId, profileToFiles, entries, credentials,
                   currentEnv>>
    /\ UNCHANGED <<fetchVars, mergeVars, apiVars, replVars, settingsVars, storeVars, remote, fetchLog, apiLog>>

\* Lines 248-254: the totals.
RefreshComplete ==
    /\ pc = "refresh complete"
    /\    LET message == LogCommand(<<"refresh - ", NumberText(successCount), " succeeded, ",
                                      NumberText(errorCount), " failed">>)
              logged  == LogResult(message)
          IN  /\ Finish(OutcomeAfterLog(logged, "Refresh complete"))
              /\ Logged(message, logged)
    /\ UNCHANGED <<command, specificEnvId, profileToFiles, entries, gi, fi, credentials,
                   currentEnv, successCount, errorCount>>
    /\ UNCHANGED <<fetchVars, mergeVars, apiVars, replVars, settingsVars, storeVars, fs, remote, logVars>>

(***************************************************************************)
(* lib/postman-api.js: updateAwsCredentials                                *)
(***************************************************************************)
AWS_VAR_NAMES == <<"aws_access_key_id", "aws_access_secret", "aws_session_token">>

IsAwsVar(key) == \E i \in 1..Len(AWS_VAR_NAMES) : AWS_VAR_NAMES[i] = key

Variable(key, value, enabled) == [key |-> key, value |-> value, enabled |-> enabled]

\* Variant that keeps the first variable of each key.
DeduplicateKeepingFirst(values) ==
    SelectSeq([i \in 1..Len(values) |->
                  IF \A j \in 1..(i - 1) : values[j].key # values[i].key
                  THEN values[i] ELSE Variable("", "", FALSE)],
              LAMBDA v : v.key # "")

\* Lines 169-173: a Map keeps a key at the place of its first set and
\* holds the value of its last set.
Deduplicate(values) ==
    LET firsts == {i \in 1..Len(values) :
                      \A j \in 1..(i - 1) : values[j].key # values[i].key}
        last(k) == CHOOSE i \in 1..Len(values) :
                      /\ values[i].key = k
                      /\ \A j \in (i + 1)..Len(values) : values[j].key # k
        keep == SelectSeq([i \in 1..Len(values) |-> <<i, values[i]>>],
                          LAMBDA iv : iv[1] \in firsts)
    IN  [n \in 1..Len(keep) |-> values[last(keep[n][2].key)]]

\* Variant that pushes a variable for every reserved key, truthy or not.
AwsValuesAlways(creds) ==
    << Variable("aws_access_key_id", creds.aws_access_key_id, TRUE),
       Variable("aws_access_secret", creds.aws_access_secret, TRUE),
       Variable("aws_session_token", creds.aws_session_token, TRUE) >>

\* Lines 176-200: one enabled variable per credential that is truthy.
AwsValues(creds) ==
    (IF creds.aws_access_key_id # ""
     THEN <<Variable("aws_access_key_id", creds.aws_access_key_id, TRUE)>> ELSE <<>>)
    \o (IF creds.aws_access_secret # ""
        THEN <<Variable("aws_access_secret", creds.aws_access_secret, TRUE)>> ELSE <<>>)
    \o (IF creds.aws_session_token # ""
        THEN <<Variable("aws_session_token", creds.aws_session_token, TRUE)>> ELSE <<>>)

\* Variant that skips the filter of step 2.
MergedValuesUnfiltered(values, creds) == Deduplicate(values) \o AwsValues(creds)

\* Lines 163-203: the values sent back for the values fetched.
MergedValues(values, creds) ==
    Deduplicate(SelectSeq(values, LAMBDA v : ~IsAwsVar(v.key))) \o AwsValues(creds)

(***************************************************************************)
(* aws-auto-env.js: handlePostmanSync                                      *)
(***************************************************************************)
\* credentials.NAME of the object getCredentialsAsEnvVars returned
\* ("" stands for undefined).
Property(creds, name) ==
    IF \E i \in 1..Len(creds) : creds[i][1] = name
    THEN creds[CHOOSE i \in 1..Len(creds) : creds[i][1] = name][2]
    ELSE ""

\* Lines 465-469.
PostmanCredentials(creds) ==
    [aws_access_key_id |-> Property(creds, "AWS_ACCESS_KEY_ID"),
     aws_access_secret |-> Property(creds, "AWS_SECRET_ACCESS_KEY"),
     aws_session_token |-> Property(creds, "AWS_SESSION_TOKEN")]

\* Lines 437-443: entries.filter on the id given, all entries without one.
SelectEntries(all, id) ==
    IF id = "" THEN all ELSE SelectSeq(all, LAMBDA e : e.id = id)

\* The position after entry `entry` of the for loop (line 459).
AfterEntry(selected, entry) ==
    IF entry < Len(selected) THEN [pc |-> "sync fetch", gi |-> entry + 1]
    ELSE [pc |-> "sync complete", gi |-> entry]

\* settings-manager.js updatePostmanMappingName (lines 201-207).
UpdatePostmanMappingName(all, id, name) ==
    [i \in 1..Len(all) |->
        IF all[i].id = id THEN [all[i] EXCEPT !.environmentName = name] ELSE all[i]]

(***************************************************************************)
(* The Postman side of an invocation.                                      *)
(***************************************************************************)
MaxEnvironments == 3

EnvironmentIds == <<"env-1", "env-2", "env-3", "env-4", "env-5">>

PostmanProfiles == {"dev", "prod"}

Environment(name, values) == [found |-> TRUE, name |-> name, values |-> values]

\* GET /environments/<id> answers without an environment.
NoEnvironment == [found |-> FALSE, name |-> "", values |-> <<>>]

SampleEnvironments ==
    << Environment("Production",
          << Variable("api_url", "https://api", TRUE),
             Variable("aws_access_key_id", "old", TRUE),
             Variable("aws_session_token", "oldtoken", TRUE),
             Variable("base_path", "/v1", FALSE) >>),
       Environment("Staging",
          << Variable("api_url", "https://one", TRUE),
             Variable("region", "eu", FALSE),
             Variable("aws_access_secret", "old", FALSE),
             Variable("api_url", "https://two", FALSE) >>),
       NoEnvironment,
       Environment("Sandbox", <<>>) >>

\* The display names cached in the settings, "" for null.
CachedNames == <<"", "Staging", "Gone", "Old">>

InitialRemote ==
    [id \in {EnvironmentIds[i] : i \in 1..MaxEnvironments} |->
        SampleEnvironments[CHOOSE i \in 1..MaxEnvironments : EnvironmentIds[i] = id]]

PostmanMapping(id, profile, name) ==
    [id |-> id, awsProfile |-> profile, environmentName |-> name]

\* `aws-auto-env refresh`: the mappings were added in the order of PathNames.
InitRefresh ==
    /\ command = "refresh" /\ pc = "refresh"
    /\ \E n \in 0..MaxMappings :
          mappings \in {[i \in 1..n |-> <<PathNames[i], f[i]>>] : f \in [1..n -> Profiles]}
    /\ postmanMappings = <<>> /\ postmanApiKey = ""
    /\ \E setup \in LogSetups : logging = setup[1] /\ logFile = setup[2]
    /\ logCalls = <<>>
    /\ fs = InitialFiles
    /\ remote = InitialRemote
    /\ RunIdle

\* `aws-auto-env postman sync [environment-id]`.
InitPostmanSync ==
    /\ command = "postman sync" /\ pc = "postman sync"
    /\ mappings = <<>>
    /\ \E n \in 0..MaxEnvironments :
          postmanMappings \in
              {[i \in 1..n |-> PostmanMapping(EnvironmentIds[i], f[i], CachedNames[i])] :
                  f \in [1..n -> PostmanProfiles]}
    /\ postmanApiKey \in {"", "PMAK-1"}
    /\ \E setup \in LogSetups : logging = setup[1] /\ logFile = setup[2]
    /\ logCalls = <<>>
    /\ fs = InitialFiles
    /\ remote = InitialRemote
    /\ specificEnvId \in {""} \cup {EnvironmentIds[i] : i \in 1..(MaxEnvironments + 1)}
    /\ profileToFiles = <<>> /\ entries = <<>>
    /\ gi = 0 /\ fi = 0 /\ credentials = NoEnvVars /\ currentEnv = <<>>
    /\ successCount = 0 /\ errorCount = 0 /\ outcome = ""
    /\ fetchLog = <<>> /\ writeLog = <<>> /\ report = <<>> /\ apiLog = <<>>

Request(method, id) == <<method, id>>

\* Lines 418-457: the checks.
PostmanSyncStart ==
    /\ pc = "postman sync"
    /\ LET selected == SelectEntries(postmanMappings, specificEnvId)
           noCli    == LogError(<<"AWS CLI not available for postman sync command">>)
       IN  IF postmanApiKey = ""
           THEN /\ Finish("Postman API key not configured")
                /\ UNCHANGED <<entries, gi, loggerVars>>
           ELSE IF postmanMappings = <<>>
           THEN /\ Finish("No Postman mappings configured")
                /\ UNCHANGED <<entries, gi, loggerVars>>
           ELSE IF selected = <<>>
           THEN /\ Finish("No Postman mapping found for environment")
                /\ UNCHANGED <<entries, gi, loggerVars>>
           ELSE \E versionRuns \in BOOLEAN :
                  IF IsAwsCliAvailable(versionRuns)
                  THEN /\ pc' = AfterCliCheck(TRUE, "sync fetch")
                       /\ entries' = selected
                       /\ gi' = 1
                       /\ UNCHANGED <<outcome, loggerVars>>
                  ELSE /\ pc' = IF LogResult(noCli).threw THEN "done"
                                ELSE AfterCliCheck(FALSE, "sync fetch")
                       /\ outcome' = OutcomeAfterLog(LogResult(noCli),
                                                     "AWS CLI is not available")
                       /\ entries' = IF pc' = "done" THEN <<>> ELSE selected
                       /\ gi' = IF pc' = "done" THEN 0 ELSE 1
                       /\ Logged(noCli, LogResult(noCli))
    /\ UNCHANGED <<command, specificEnvId, profileToFiles, fi, credentials, currentEnv,
                   successCount, errorCount>>
    /\ UNCHANGED <<fetchVars, mergeVars, apiVars, replVars, settingsVars, storeVars, fs, remote, logVars>>

\* The catch of the loop body (lines 485-490), then the next entry.
EntryFailed(detail) ==
       LET message == LogError(<<"Failed to sync ", entries[gi].id, " to Postman: ">> \o detail)
           logged  == LogResult(message)
           next    == AfterLog(logged, [pc |-> AfterEntry(entries, gi).pc,
                                        gi |-> AfterEntry(entries, gi).gi, fi |-> fi])
       IN  /\ report' = Append(report, <<entries[gi].id, "failed">>)
           /\ Logged(message, logged)
           /\ errorCount' = errorCount + 1
           /\ outcome' = OutcomeAfterLog(logged, outcome)
           /\ pc' = next.pc /\ gi' = next.gi
           /\ UNCHANGED successCount

\* Lines 460-475 up to the first await: the credentials of the entry's
\* profile, then the GET request of updateAwsCredentials.
SyncFetch ==
    /\ pc = "sync fetch"
    /\ \E script \in SyncScripts :
          LET config == entries[gi]
              result == GetCredentialsAsEnvVars(config.awsProfile, script)
          IN  /\ fetchLog' = Append(fetchLog, Fetched(config.awsProfile, result))
              /\ IF result.ok
                 THEN /\ credentials' = result.credentials
                      /\ apiLog' = Append(apiLog, Request("GET", config.id))
                      /\ pc' = "sync get"
                      /\ UNCHANGED <<gi, report, successCount, errorCount, outcome,
                                     loggerVars>>
                 ELSE /\ EntryFailed(Message(result.error))
                      /\ UNCHANGED <<credentials, apiLog>>
    /\ UNCHANGED <<command, specificEnvId, profileToFiles, entries, fi, currentEnv>>
    /\ UNCHANGED <<fetchVars, mergeVars, apiVars, replVars, settingsVars, storeVars, fs, remote, writeLog>>

\* postman-api.js lines 157-206: the answer to the GET, the merge and the
\* PUT request.
SyncGetResponse ==
    /\ pc = "sync get"
    /\ \E requestFails \in BOOLEAN :
          LET config == entries[gi]
              env    == remote[config.id]
          IN  IF requestFails \/ ~env.found
              THEN /\ EntryFailed(<<"Postman API error">>)
                   /\ UNCHANGED <<currentEnv, apiLog>>
              ELSE /\ currentEnv' =
                          Environment(env.name,
                              MergedValues(env.values, PostmanCredentials(credentials)))
                   /\ apiLog' = Append(apiLog, Request("PUT", config.id))
                   /\ pc' = "sync put"
                   /\ UNCHANGED <<gi, report, successCount, errorCount, outcome,
                                  loggerVars>>
    /\ UNCHANGED <<command, specificEnvId, profileToFiles, entries, fi, credentials>>
    /\ UNCHANGED <<fetchVars, mergeVars, apiVars, replVars, settingsVars, storeVars, fs, remote, fetchLog, writeLog>>

\* The answer to the PUT, then lines 477-484.
SyncPutResponse ==
    /\ pc = "sync put"
    /\ \E requestFails \in BOOLEAN :
          LET config == entries[gi]
              next   == AfterEntry(entries, gi)
          IN  IF requestFails
              THEN /\ EntryFailed(<<"Postman API error">>)
                   /\ UNCHANGED <<remote, postmanMappings>>
              ELSE /\ remote' = [remote EXCEPT ![config.id] = currentEnv]
                   /\ postmanMappings' =
                          IF currentEnv.name # "" /\ currentEnv.name # config.environmentName
                          THEN UpdatePostmanMappingName(postmanMappings, config.id,
                                                        currentEnv.name)
                          ELSE postmanMappings
                   /\ report' = Append(report, <<config.id, "updated">>)
                   /\ successCount' = successCount + 1
                   /\ pc' = next.pc /\ gi' = next.gi
                   /\ UNCHANGED <<errorCount, outcome, loggerVars>>
    /\ UNCHANGED <<command, specificEnvId, profileToFiles, entries, fi, credentials,
                   currentEnv>>
    /\ UNCHANGED <<fetchVars, mergeVars, apiVars, replVars, settingsVars, mappings, postmanApiKey, logging,
                   fs, fetchLog, writeLog, apiLog>>

\* Lines 493-495: the totals.
SyncComplete ==
    /\ pc = "sync complete"
    /\    LET message == LogCommand(<<"postman sync - ", NumberText(successCount),
                                      " succeeded, ", NumberText(errorCount), " failed">>)
              logged  == LogResult(message)
          IN  /\ Finish(OutcomeAfterLog(logged, "Sync complete"))
              /\ Logged(message, logged)
    /\ UNCHANGED <<command, specificEnvId, profileToFiles, entries, gi, fi, credentials,
                   currentEnv, successCount, errorCount>>
    /\ UNCHANGED <<fetchVars, mergeVars, apiVars, replVars, settingsVars, storeVars, fs, remote, logVars>>

(***************************************************************************)
(* lib/settings-manager.js: the settings store.                            *)
(*                                                                         *)
(* readSettings returns JSON.parse of the file, or, when the file does not *)
(* exist, { ...DEFAULT_SETTINGS }: a new top-level object whose nested     *)
(* objects (mappings, postmanMappings, postman, logging) are the ones of   *)
(* DEFAULT_SETTINGS itself, so what a caller then stores in them is stored *)
(* in DEFAULT_SETTINGS too.                                                *)
(***************************************************************************)
Settings(mappingsObject, postmanObject, key, config) ==
    [mappings |-> mappingsObject, postmanMappings |-> postmanObject,
     apiKey |-> key, logging |-> config]

\* DEFAULT_SETTINGS as the module defines it (lines 17-27).
InitialDefaults ==
    Settings(<<>>, <<>>, "", [enabled |-> FALSE, logFile |-> "./aws-auto-env.log"])

SettingsFileOf(settings) == [exists |-> TRUE, content |-> settings]

NoSettingsFile == [exists |-> FALSE, content |-> InitialDefaults]

\* readSettings (lines 33-45): the object returned, whether it shares its
\* nested objects with DEFAULT_SETTINGS, and the file after the call.
ReadSettings(file, defaults) ==
    IF ~file.exists
    THEN [settings |-> defaults, aliased |-> TRUE, file |-> SettingsFileOf(defaults)]
    ELSE [settings |-> file.content, aliased |-> FALSE, file |-> file]

\* obj[name] = value.  Assigning a string to __proto__ runs the inherited
\* setter, which ignores it: no own property is created.
SetProperty(obj, name, value) ==
    IF HasOwn(obj, name) THEN [obj EXCEPT ![OwnIndex(obj, name)][2] = value]
    ELSE IF name = "__proto__" THEN obj
    ELSE DefineProperty(obj, name, value)

\* Is obj[name] truthy: an own property (the values stored are non-empty
\* strings or objects) or a member inherited from Object.prototype.
IsTruthy(obj, name) == HasOwn(obj, name) \/ name \in ObjectPrototypeNames

\* delete obj[name]
DeleteProperty(obj, name) == SelectSeq(obj, LAMBDA kv : kv[1] # name)

\* The object after each operation's change to what readSettings returned.
WithMapping(settings, envPath, awsProfile) ==
    [settings EXCEPT !.mappings = SetProperty(@, envPath, awsProfile)]

WithoutMapping(settings, envPath) ==
    [settings EXCEPT !.mappings = DeleteProperty(@, envPath)]

WithPostmanMapping(settings, environmentId, config) ==
    [settings EXCEPT !.postmanMappings = SetProperty(@, environmentId, config)]

\* updatePostmanMappingName (lines 201-207) with the test of line 203 left
\* out and the whole entry assigned.
WithPostmanMappingNameOnly(settings, environmentId, environmentName) ==
    [settings EXCEPT !.postmanMappings =
        SetProperty(@, environmentId,
                    [id |-> environmentId, awsProfile |-> "",
                     environmentName |-> environmentName])]

\* updatePostmanMappingName (lines 201-207): line 204 on the object that
\* readSettings returned.  For an ID that names an inherited member the
\* property is set on that member, not on postmanMappings.
WithPostmanMappingName(settings, environmentId, environmentName) ==
    LET all == settings.postmanMappings
    IN  IF HasOwn(all, environmentId)
        THEN [settings EXCEPT !.postmanMappings =
                 [all EXCEPT ![OwnIndex(all, environmentId)][2].environmentName =
                                 environmentName]]
        ELSE settings

MaxCalls == 3

SettingsEnvironmentIds == {"env-1", "env-2", "constructor"}

SettingsPaths == {"a.env", "b.env", "__proto__"}

SettingsProfiles == {"dev", "prod"}

Call(op, envPath, awsProfile, missing, returned) ==
    [op |-> op, path |-> envPath, profile |-> awsProfile, missing |-> missing,
     returned |-> returned]

SettingsIdle ==
    /\ settingsFile = NoSettingsFile
    /\ DEFAULT_SETTINGS = InitialDefaults
    /\ calls = <<>>

(***************************************************************************)
(* SpecFetch: one credential fetch against a scripted provider.            *)
(***************************************************************************)
FetchIdle == 
    /\ fetchProfile = "" /\ fetchScript = NoScript
    /\ fetchCall = "" /\ fetchResult = NoResult

MergeIdle ==
    /\ mergeFile = Absent /\ mergeCreds = <<>>
    /\ mergeHistory = <<>> /\ mergeReturns = <<>>

SyncIdle ==
    /\ mappings = <<>> /\ postmanMappings = <<>> /\ postmanApiKey = ""
    /\ fs = <<>> /\ remote = <<>>
    /\ command = "" /\ pc = "off" /\ specificEnvId = ""
    /\ profileToFiles = <<>> /\ entries = <<>>
    /\ gi = 0 /\ fi = 0 /\ credentials = NoEnvVars /\ currentEnv = <<>>
    /\ successCount = 0 /\ errorCount = 0 /\ outcome = ""
    /\ fetchLog = <<>> /\ writeLog = <<>> /\ report = <<>> /\ apiLog = <<>>

\* No line entered, no handler in progress, apiKey = null.
ReplIdle ==
    /\ typed = 0 /\ handlers = <<>> /\ apiKey = "" /\ requests = <<>>

\* The postman-api function has neither returned nor thrown.
NoApiResult == [status |-> "pending", error |-> <<>>, environmentName |-> "",
                environmentId |-> ""]

ApiIdle ==
    /\ apiEnvironmentId = "" /\ apiAwsProfile = ""
    /\ fetchedEnv = <<>> /\ apiResult = NoApiResult
    /\ otherRequests = <<>>

InitFetch ==
    /\ fetchProfile \in FetchProfiles
    /\ fetchScript \in Scripts
    /\ fetchCall = ""
    /\ fetchResult = NoResult
    /\ MergeIdle /\ ApiIdle
    /\ SyncIdle /\ LoggerIdle
    /\ ReplIdle
    /\ SettingsIdle

CallGetCredentials ==
    /\ fetchCall = ""
    /\ fetchCall' = "getCredentials"
    /\ fetchResult' = GetCredentials(fetchProfile, FALSE, fetchScript)
    /\ UNCHANGED <<fetchProfile, fetchScript, mergeVars, syncVars, apiVars>>

CallGetCredentialsAsEnvVars ==
    /\ fetchCall = ""
    /\ fetchCall' = "getCredentialsAsEnvVars"
    /\ fetchResult' = GetCredentialsAsEnvVars(fetchProfile, fetchScript)
    /\ UNCHANGED <<fetchProfile, fetchScript, mergeVars, syncVars, apiVars>>

NextFetch == CallGetCredentials \/ CallGetCredentialsAsEnvVars

SpecFetch == InitFetch /\ [][NextFetch]_vars

(***************************************************************************)
(* SpecMerge: writeCredentialsToFile called repeatedly with the same       *)
(* credentials on one destination file.                                    *)
(***************************************************************************)
InitMerge ==
    /\ mergeFile \in FileStates
    /\ mergeCreds \in CredentialSets
    /\ mergeHistory = <<mergeFile>>
    /\ mergeReturns = <<>>
    /\ FetchIdle /\ ApiIdle
    /\ SyncIdle /\ LoggerIdle
    /\ ReplIdle
    /\ SettingsIdle

CallWriteCredentialsToFile ==
    /\ Len(mergeReturns) < MaxMergeCalls
    /\ LET call == WriteCredentialsToFile(mergeCreds, MergePath, mergeFile, FALSE)
       IN  /\ mergeFile' = call.file
           /\ mergeHistory' = Append(mergeHistory, call.file)
           /\ mergeReturns' = Append(mergeReturns, call.returned)
    /\ UNCHANGED <<mergeCreds, fetchVars, syncVars, apiVars>>

NextMerge == CallWriteCredentialsToFile

SpecMerge == InitMerge /\ [][NextMerge]_vars

(***************************************************************************)
(* SpecRepl: the interactive loop of main.  rl.on("line", async ...) runs  *)
(* processCommand for every line the moment it is entered; a handler that  *)
(* awaits a response of the Postman API stays in progress until the        *)
(* response arrives.                                                       *)
(***************************************************************************)
MaxTyped == 3

ReplCommands == {"list", "postman key", "postman envs", "postman add", "postman sync"}

ApiKeys == {"PMAK-1", "PMAK-2"}

\* A handler in progress: the line that started it, the key it handed to
\* setApiKey, the await it is at and the entries of its loop still to do.
Handler(id, line, key, step, left) ==
    [id |-> id, command |-> line, key |-> key, step |-> step, left |-> left]

\* makeRequest (lines 37-45): the header carries the module-level apiKey.
Sent(handler, method, key) ==
    [id |-> handler.id, own |-> handler.key, method |-> method, key |-> key]

\* settings-manager.js addPostmanMapping (lines 169-179).
AddPostmanMapping(all, id, config) ==
    IF \E i \in 1..Len(all) : all[i].id = id
    THEN [i \in 1..Len(all) |-> IF all[i].id = id THEN config ELSE all[i]]
    ELSE Append(all, config)

Remove(seq, n) == SubSeq(seq, 1, n - 1) \o SubSeq(seq, n + 1, Len(seq))

InitRepl ==
    /\ FetchIdle /\ MergeIdle /\ ApiIdle /\ ReplIdle /\ SettingsIdle /\ LoggerIdle
    /\ mappings = <<>>
    /\ postmanMappings \in {<<>>, <<PostmanMapping("env-1", "dev", "")>>}
    /\ postmanApiKey \in {"", "PMAK-1"}
    /\ fs = <<>> /\ remote = <<>>
    /\ command = "" /\ pc = "repl"
    /\ RunIdle

\* A "line" event: processCommand runs up to the first await of the
\* handler, or to its end when it awaits nothing.
ReplLine ==
    /\ pc = "repl"
    /\ typed < MaxTyped
    /\ typed' = typed + 1
    /\ \E line \in ReplCommands, key \in ApiKeys, fetched \in BOOLEAN :
          IF line = "list"
          THEN UNCHANGED <<postmanApiKey, handlers, apiKey, requests>>
          ELSE IF line = "postman key"
          THEN /\ postmanApiKey' = key
               /\ UNCHANGED <<handlers, apiKey, requests>>
          ELSE IF postmanApiKey = ""
          THEN UNCHANGED <<postmanApiKey, handlers, apiKey, requests>>
          ELSE IF line = "postman sync" /\ postmanMappings = <<>>
          THEN /\ apiKey' = postmanApiKey
               /\ UNCHANGED <<postmanApiKey, handlers, requests>>
          ELSE IF line = "postman sync" /\ ~fetched
          THEN /\ apiKey' = postmanApiKey
               /\ UNCHANGED <<postmanApiKey, handlers, requests>>
          ELSE LET left == IF line = "postman sync" THEN Len(postmanMappings) - 1 ELSE 0
                   handler == Handler(typed + 1, line, postmanApiKey, "GET", left)
               IN  /\ apiKey' = postmanApiKey
                   /\ handlers' = Append(handlers, handler)
                   /\ requests' = Append(requests, Sent(handler, "GET", apiKey'))
                   /\ UNCHANGED postmanApiKey
    /\ UNCHANGED <<fetchVars, mergeVars, apiVars, mappings, postmanMappings, logging, fs, remote,
                   runVars, logVars, settingsVars, loggerVars>>

\* A response of the Postman API arrives and the handler awaiting it goes
\* on to its next await or to its end.
ReplResponse ==
    /\ pc = "repl"
    /\ \E h \in 1..Len(handlers) :
          LET handler == handlers[h]
          IN  IF handler.command = "postman sync" /\ handler.step = "GET"
              THEN /\ handlers' = [handlers EXCEPT ![h].step = "PUT"]
                   /\ requests' = Append(requests, Sent(handler, "PUT", apiKey))
                   /\ UNCHANGED postmanMappings
              ELSE IF handler.command = "postman sync" /\ handler.left > 0
              THEN /\ handlers' = [handlers EXCEPT ![h].step = "GET",
                                                   ![h].left = handler.left - 1]
                   /\ requests' = Append(requests, Sent(handler, "GET", apiKey))
                   /\ UNCHANGED postmanMappings
              ELSE /\ handlers' = Remove(handlers, h)
                   /\ postmanMappings' =
                          IF handler.command = "postman add"
                          THEN AddPostmanMapping(postmanMappings, "env-2",
                                                 PostmanMapping("env-2", "dev", "Staging"))
                          ELSE postmanMappings
                   /\ UNCHANGED requests
    /\ UNCHANGED <<fetchVars, mergeVars, apiVars, mappings, postmanApiKey, logging, fs, remote,
                   runVars, logVars, typed, apiKey, settingsVars, loggerVars>>

NextRepl == ReplLine \/ ReplResponse

SpecRepl == InitRepl /\ [][NextRepl]_vars

(***************************************************************************)
(* SpecSettings: settings operations of one process, the settings file     *)
(* being removed from outside at any time.                                 *)
(***************************************************************************)
\* The settings operations touch nothing but the settings store.
NothingElseChanges ==
    UNCHANGED <<fetchVars, mergeVars, apiVars, storeVars, fs, remote, runVars, logVars, replVars,
                loggerVars>>

\* writeSettings(settings) after a change made to the object that
\* readSettings returned (read).
Store(read, settings, call) ==
    /\ settingsFile' = SettingsFileOf(settings)
    /\ DEFAULT_SETTINGS' = IF read.aliased THEN settings ELSE DEFAULT_SETTINGS
    /\ calls' = Append(calls, call)

\* addMapping (lines 74-78).
AddMapping ==
    /\ Len(calls) < MaxCalls
    /\ NothingElseChanges
    /\ \E envPath \in SettingsPaths, awsProfile \in SettingsProfiles :
          LET read == ReadSettings(settingsFile, DEFAULT_SETTINGS)
          IN  Store(read, WithMapping(read.settings, envPath, awsProfile),
                    Call("addMapping", envPath, awsProfile, ~settingsFile.exists,
                         read.settings))

\* removeMapping (lines 85-93).
RemoveMapping ==
    /\ Len(calls) < MaxCalls
    /\ NothingElseChanges
    /\ \E envPath \in SettingsPaths :
          LET read == ReadSettings(settingsFile, DEFAULT_SETTINGS)
              call == Call("removeMapping", envPath, "", ~settingsFile.exists,
                           read.settings)
          IN  IF IsTruthy(read.settings.mappings, envPath)
              THEN Store(read, WithoutMapping(read.settings, envPath), call)
              ELSE /\ settingsFile' = read.file
                   /\ calls' = Append(calls, call)
                   /\ UNCHANGED DEFAULT_SETTINGS

\* addPostmanMapping (lines 169-179).
AddPostmanMappingCall ==
    /\ Len(calls) < MaxCalls
    /\ NothingElseChanges
    /\ \E environmentId \in {"env-1", "env-2"} :
          LET read == ReadSettings(settingsFile, DEFAULT_SETTINGS)
          IN  Store(read,
                    WithPostmanMapping(read.settings, environmentId,
                                       PostmanMapping(environmentId, "dev", "")),
                    Call("addPostmanMapping", environmentId, "dev", ~settingsFile.exists,
                         read.settings))

\* updatePostmanMappingName (lines 201-207); the call records the ID and
\* the name it was given.
UpdatePostmanMappingNameCall ==
    /\ Len(calls) < MaxCalls
    /\ NothingElseChanges
    /\ \E environmentId \in SettingsEnvironmentIds :
          LET read == ReadSettings(settingsFile, DEFAULT_SETTINGS)
              call == Call("updatePostmanMappingName", environmentId, "New Name",
                           ~settingsFile.exists, read.settings)
          IN  IF IsTruthy(read.settings.postmanMappings, environmentId)
              THEN Store(read,
                         WithPostmanMappingName(read.settings, environmentId, "New Name"),
                         call)
              ELSE /\ settingsFile' = read.file
                   /\ calls' = Append(calls, call)
                   /\ UNCHANGED DEFAULT_SETTINGS

\* setPostmanApiKey (lines 146-153).
SetPostmanApiKey ==
    /\ Len(calls) < MaxCalls
    /\ NothingElseChanges
    /\ LET read == ReadSettings(settingsFile, DEFAULT_SETTINGS)
       IN  Store(read, [read.settings EXCEPT !.apiKey = "PMAK-1"],
                 Call("setPostmanApiKey", "", "", ~settingsFile.exists, read.settings))

\* enableLogging (lines 107-111).
EnableLogging ==
    /\ Len(calls) < MaxCalls
    /\ NothingElseChanges
    /\ LET read == ReadSettings(settingsFile, DEFAULT_SETTINGS)
       IN  Store(read, [read.settings EXCEPT !.logging.enabled = TRUE],
                 Call("enableLogging", "", "", ~settingsFile.exists, read.settings))

\* setLogFile (lines 126-130).
SetLogFile ==
    /\ Len(calls) < MaxCalls
    /\ NothingElseChanges
    /\ LET read == ReadSettings(settingsFile, DEFAULT_SETTINGS)
       IN  Store(read, [read.settings EXCEPT !.logging.logFile = "./audit.log"],
                 Call("setLogFile", "./audit.log", "", ~settingsFile.exists,
                      read.settings))

\* readSettings called on its own (lines 33-45).
ReadSettingsCall ==
    /\ Len(calls) < MaxCalls
    /\ NothingElseChanges
    /\ LET read == ReadSettings(settingsFile, DEFAULT_SETTINGS)
       IN  /\ settingsFile' = read.file
           /\ calls' = Append(calls, Call("readSettings", "", "", ~settingsFile.exists,
                                          read.settings))
           /\ UNCHANGED DEFAULT_SETTINGS

\* The settings file is removed from outside (the operator, or a test's
\* clean-up) while the process goes on.
SettingsFileRemoved ==
    /\ Len(calls) < MaxCalls
    /\ NothingElseChanges
    /\ settingsFile.exists
    /\ settingsFile' = NoSettingsFile
    /\ calls' = Append(calls, Call("unlink", "", "", FALSE, InitialDefaults))
    /\ UNCHANGED DEFAULT_SETTINGS

InitSettings ==
    /\ FetchIdle /\ MergeIdle /\ ApiIdle /\ SyncIdle /\ ReplIdle /\ LoggerIdle
    /\ settingsFile \in {NoSettingsFile, SettingsFileOf(InitialDefaults)}
    /\ DEFAULT_SETTINGS = InitialDefaults
    /\ calls = <<>>

NextSettings ==
    \/ AddMapping \/ RemoveMapping \/ AddPostmanMappingCall \/ UpdatePostmanMappingNameCall
    \/ SetPostmanApiKey
    \/ EnableLogging \/ SetLogFile \/ ReadSettingsCall \/ SettingsFileRemoved

SpecSettings == InitSettings /\ [][NextSettings]_vars

(***************************************************************************)
(* SpecLog: calls of the logger, logging being switched on and off.        *)
(***************************************************************************)
MaxLogCalls == 3

\* What `aws configure export-credentials` prints on stderr for a profile
\* that does not exist: a blank line, the sentence, a line end.
StderrNoProfile == <<"\n", "The config profile (dev) could not be found", "\n">>

\* Messages the handlers log: logCommand of handleAdd (line 57) and of
\* handleRefresh (lines 252-254), logError of handleRefresh for a write
\* (lines 228-230) and for a fetch (lines 242-244), the latter quoting the
\* error of getCredentials, which quotes the provider's stderr
\* (part_000 lines 46-62).
LoggedMessages ==
    { LogCommand(<<"add ", "a.env", " ", "dev">>),
      LogCommand(<<"refresh - ", NumberText(1), " succeeded, ", NumberText(0), " failed">>),
      LogError(<<"Failed to write credentials to ", "a.env", ": ",
                 "EACCES: permission denied">>),
      LogError(<<"Failed to get credentials for profile ", "dev", ": ",
                 "Failed to get credentials for profile ", "dev", ": ">>
               \o StderrNoProfile) }

\* A log file written by an earlier session.
EarlierLog ==
    LogText(LogMessage("2025-12-31T23:59:59.000Z", LogCommand(<<"profiles">>)))

OnlyLoggerChanges ==
    UNCHANGED <<fetchVars, mergeVars, apiVars, mappings, postmanMappings, postmanApiKey, fs, remote,
                runVars, logVars, replVars, settingsVars>>

InitLog ==
    /\ FetchIdle /\ MergeIdle /\ ApiIdle /\ SyncIdle /\ ReplIdle /\ SettingsIdle
    /\ logging \in LoggingConfigs
    /\ logFile \in {NoLogFile, EarlierLog, Unwritable(EarlierLog)}
    /\ logCalls = <<>>

\* A handler calls logCommand or logError.
CallLog ==
    /\ Len(logCalls) < MaxLogCalls
    /\ \E message \in LoggedMessages :
          Logged(message, LogResult(message))
    /\ UNCHANGED logging
    /\ OnlyLoggerChanges

\* `log enable` (part_003 lines 140-144): enableLogging, then logCommand.
HandleLogEnable ==
    /\ Len(logCalls) < MaxLogCalls
    /\ logging' = Logging(TRUE, logging.logFile)
    /\    LET message == LogCommand(<<"log enable">>)
              result  == Log(logging', logFile, message,
                             ToISOString(Len(logCalls) + 1), ~logFile.writable)
          IN  /\ logFile' = result.file
              /\ logCalls' = Append(logCalls, LogCall(message, logging', result.reported,
                                                      logFile, result.file))
    /\ OnlyLoggerChanges

\* `log disable` (part_003 lines 146-149): disableLogging, nothing logged.
HandleLogDisable ==
    /\ logging.enabled
    /\ logging' = Logging(FALSE, logging.logFile)
    /\ UNCHANGED loggerVars
    /\ OnlyLoggerChanges

\* The permissions of the log file or of its directory are changed from
\* outside.
LogFilePermissionsChange ==
    /\ logFile' = [logFile EXCEPT !.writable = ~logFile.writable]
    /\ UNCHANGED <<logging, logCalls>>
    /\ OnlyLoggerChanges

NextLog == CallLog \/ HandleLogEnable \/ HandleLogDisable \/ LogFilePermissionsChange

SpecLog == InitLog /\ [][NextLog]_vars

(***************************************************************************)
(* SpecApi: one call of lib/postman-api.js (updateAwsCredentials or        *)
(* getEnvironmentName) or one `postman add`, against a Postman API whose   *)
(* environments other users change at any time.  Logging is off, so the    *)
(* logger calls of handlePostmanAdd return at once.                        *)
(***************************************************************************)
MaxOtherRequests == 1

ApiCommands == {"updateAwsCredentials", "getEnvironmentName", "postman add"}

\* credentials argument of updateAwsCredentials.
ApiCredentials ==
    { [aws_access_key_id |-> "AKIA1", aws_access_secret |-> "secret",
       aws_session_token |-> ""],
      [aws_access_key_id |-> "AKIA2", aws_access_secret |-> "secret",
       aws_session_token |-> "token"] }

ApiReturned(name, id) ==
    [status |-> "returned", error |-> <<>>, environmentName |-> name,
     environmentId |-> id]

ApiThrown(error) ==
    [status |-> "thrown", error |-> error, environmentName |-> "", environmentId |-> ""]

\* getEnvironment (lines 98-100), updateEnvironment (lines 128-130) and
\* makeRequest (lines 32-35): the error raised before any request is sent,
\* <<>> when the request is sent.
RequestError(id, key) ==
    IF id = "" THEN <<"Environment ID is required">>
    ELSE IF key = "" THEN <<"Postman API key not set">>
    ELSE <<>>

\* Variant without the test of line 159.
NotFoundIgnored(environment) == FALSE

\* updateAwsCredentials line 159: if (!currentEnv).
NotFound(environment) == ~environment.found

\* Variant of getEnvironmentName without its try/catch.
GetEnvironmentNameUncaught(error, environment) ==
    IF error # <<>> THEN ApiThrown(error)
    ELSE ApiReturned(IF environment.found THEN environment.name ELSE "", "")

\* getEnvironmentName (lines 111-118), given what getEnvironment threw
\* (<<>> for nothing) or returned: environment?.name || null, and null
\* from the catch ("" stands for null).
GetEnvironmentName(error, environment) ==
    ApiReturned(IF error = <<>> /\ environment.found THEN environment.name ELSE "", "")

\* handlePostmanAdd line 358: environmentName || environmentId.
DisplayName(name, id) == IF name # "" THEN name ELSE id

\* A server that keeps the variables the body does not name.
ReplacedKeepingOthers(stored, body) ==
    Environment(body.name,
                body.values \o
                SelectSeq(stored.values,
                          LAMBDA v : \A i \in 1..Len(body.values) :
                                        body.values[i].key # v.key))

\* updateEnvironment (lines 127-141): PUT /environments/<id> puts the name
\* and the values of the body in the place of the stored ones.
Replaced(stored, body) == body

\* What another user of the API does to an environment.
OtherChanges == {"add", "rename"}

\* What the n-th change writes: a value no environment holds before.
OtherTexts == <<"https://team-1", "https://team-2", "https://team-3">>

Changed(environment, change, n) ==
    IF change = "add"
    THEN [environment EXCEPT !.values = Append(@, Variable("team_url", OtherTexts[n], TRUE))]
    ELSE [environment EXCEPT !.name = OtherTexts[n]]

\* The variables of SpecApi that no action of it changes.
ApiFrame ==
    UNCHANGED <<fetchVars, mergeVars, settingsVars, loggerVars, mappings, postmanApiKey,
                logging, fs, command, specificEnvId, profileToFiles, entries, gi, fi,
                credentials, successCount, errorCount, fetchLog, writeLog, report,
                typed, handlers, requests, apiEnvironmentId, apiAwsProfile>>

\* getEnvironmentName has ended with `result`.  Called on its own that is
\* the end; handlePostmanAdd (lines 346-359) goes on with the name, null
\* as well when the call threw (lines 349-351), stores the mapping and
\* prints the display name.
AfterLookup(result) ==
    /\ apiResult' = result
    /\ pc' = "done"
    /\ IF command = "postman add"
       THEN LET environmentName ==
                    IF result.status = "returned" THEN result.environmentName ELSE ""
            IN  /\ postmanMappings' =
                       AddPostmanMapping(postmanMappings, apiEnvironmentId,
                           PostmanMapping(apiEnvironmentId, apiAwsProfile, environmentName))
                /\ outcome' = DisplayName(environmentName, apiEnvironmentId)
       ELSE UNCHANGED <<postmanMappings, outcome>>

\* getEnvironment or updateEnvironment threw `error`: updateAwsCredentials
\* lets it through to its caller, getEnvironmentName handles it.
CallFailed(error) ==
    IF command = "updateAwsCredentials"
    THEN /\ apiResult' = ApiThrown(error)
         /\ pc' = "done"
         /\ UNCHANGED <<postmanMappings, outcome>>
    ELSE AfterLookup(GetEnvironmentName(error, NoEnvironment))

\* The call up to its first await: the checks of handlePostmanAdd (lines
\* 329-343), then getEnvironment up to the GET request (lines 97-103).
ApiCall ==
    /\ pc = "call"
    /\ IF command = "postman add" /\ (apiEnvironmentId = "" \/ apiAwsProfile = "")
       THEN /\ Finish("Both <environment-id> and <aws-profile> are required")
            /\ UNCHANGED <<apiKey, apiLog, apiResult, postmanMappings>>
       ELSE IF command = "postman add" /\ postmanApiKey = ""
       THEN /\ Finish("Postman API key not configured")
            /\ UNCHANGED <<apiKey, apiLog, apiResult, postmanMappings>>
       ELSE LET key   == IF command = "postman add" THEN postmanApiKey ELSE apiKey
                error == RequestError(apiEnvironmentId, key)
            IN  /\ apiKey' = key
                /\ IF error = <<>>
                   THEN /\ apiLog' = Append(apiLog, Request("GET", apiEnvironmentId))
                        /\ pc' = "get"
                        /\ UNCHANGED <<apiResult, postmanMappings, outcome>>
                   ELSE /\ CallFailed(error)
                        /\ UNCHANGED apiLog
    /\ UNCHANGED <<remote, fetchedEnv, currentEnv, otherRequests>>
    /\ ApiFrame

\* The answer to the GET request: getEnvironment returns or throws, then
\* getEnvironmentName ends (lines 113-114) or updateAwsCredentials goes on
\* to the PUT request (lines 159-206).
ApiGetResponse ==
    /\ pc = "get"
    /\ \E requestFails \in BOOLEAN :
          IF requestFails
          THEN /\ CallFailed(<<"Postman API error">>)
               /\ UNCHANGED <<fetchedEnv, currentEnv, apiLog>>
          ELSE LET environment == remote[apiEnvironmentId]
                   error       == RequestError(apiEnvironmentId, apiKey)
               IN  /\ fetchedEnv' = <<environment>>
                   /\ IF command # "updateAwsCredentials"
                      THEN /\ AfterLookup(GetEnvironmentName(<<>>, environment))
                           /\ UNCHANGED <<currentEnv, apiLog>>
                      ELSE IF NotFound(environment)
                      THEN /\ CallFailed(<<"Environment ", apiEnvironmentId, " not found">>)
                           /\ UNCHANGED <<currentEnv, apiLog>>
                      ELSE IF error # <<>>
                      THEN /\ CallFailed(error)
                           /\ UNCHANGED <<currentEnv, apiLog>>
                      ELSE /\ currentEnv' =
                                  Environment(environment.name,
                                      MergedValues(environment.values, credentials))
                           /\ apiLog' = Append(apiLog, Request("PUT", apiEnvironmentId))
                           /\ pc' = "put"
                           /\ UNCHANGED <<apiResult, postmanMappings, outcome>>
    /\ UNCHANGED <<remote, apiKey, otherRequests>>
    /\ ApiFrame

\* The answer to the PUT request (lines 206-211).
ApiPutResponse ==
    /\ pc = "put"
    /\ \E requestFails \in BOOLEAN :
          IF requestFails
          THEN /\ CallFailed(<<"Postman API error">>)
               /\ UNCHANGED remote
          ELSE /\ remote' = [remote EXCEPT ![apiEnvironmentId] = Replaced(@, currentEnv)]
               /\ apiResult' = ApiReturned(currentEnv.name, apiEnvironmentId)
               /\ pc' = "done"
               /\ UNCHANGED <<postmanMappings, outcome>>
    /\ UNCHANGED <<apiKey, apiLog, fetchedEnv, currentEnv, otherRequests>>
    /\ ApiFrame

\* Another user of the API changes the same environment, before, during
\* or after the call.
OtherUserUpdates ==
    /\ Len(otherRequests) < MaxOtherRequests
    /\ apiEnvironmentId # ""
    /\ remote[apiEnvironmentId].found
    /\ \E change \in OtherChanges :
          /\ remote' = [remote EXCEPT ![apiEnvironmentId] =
                            Changed(@, change, Len(otherRequests) + 1)]
          /\ otherRequests' = Append(otherRequests, [change |-> change, at |-> pc])
    /\ UNCHANGED <<pc, outcome, apiKey, apiLog, apiResult, postmanMappings, fetchedEnv,
                   currentEnv>>
    /\ ApiFrame

InitApi ==
    /\ FetchIdle /\ MergeIdle /\ SettingsIdle /\ LoggerIdle
    /\ command \in ApiCommands /\ pc = "call"
    /\ apiEnvironmentId \in {""} \cup {EnvironmentIds[i] : i \in 1..MaxEnvironments}
    /\ apiAwsProfile \in (IF command = "postman add" THEN PostmanProfiles ELSE {""})
    /\ credentials \in (IF command = "updateAwsCredentials" THEN ApiCredentials
                        ELSE {NoEnvVars})
    /\ apiKey \in (IF command = "postman add" THEN {""} ELSE {"", "PMAK-1"})
    /\ postmanApiKey \in (IF command = "postman add" THEN {"", "PMAK-1"} ELSE {""})
    /\ postmanMappings \in {<<>>, <<PostmanMapping("env-1", "prod", "Old")>>}
    /\ mappings = <<>> /\ fs = <<>> /\ remote = InitialRemote
    /\ specificEnvId = "" /\ profileToFiles = <<>> /\ entries = <<>>
    /\ gi = 0 /\ fi = 0 /\ currentEnv = <<>>
    /\ successCount = 0 /\ errorCount = 0 /\ outcome = ""
    /\ fetchLog = <<>> /\ writeLog = <<>> /\ report = <<>> /\ apiLog = <<>>
    /\ typed = 0 /\ handlers = <<>> /\ requests = <<>>
    /\ fetchedEnv = <<>> /\ apiResult = NoApiResult /\ otherRequests = <<>>

NextApi == ApiCall \/ ApiGetResponse \/ ApiPutResponse \/ OtherUserUpdates

SpecApi == InitApi /\ [][NextApi]_vars

(***************************************************************************)
(* Properties of one credential fetch (SpecFetch).                         *)
(***************************************************************************)
Count(seq, x) == Cardinality({i \in 1..Len(seq) : seq[i] = x})

FirstExpired == fetchScript.first.failed /\ IsSsoExpired(ErrorMessage(fetchScript.first))

FetchCalled == fetchCall # "" /\ fetchProfile # ""

\* The call made returned the credentials this valid output carries.
ReturnedFrom(output) ==
    LET creds == [AWS_ACCESS_KEY_ID |-> output.AccessKeyId,
                  AWS_SECRET_ACCESS_KEY |-> output.SecretAccessKey,
                  AWS_SESSION_TOKEN |-> output.SessionToken,
                  EXPIRATION |-> output.Expiration]
    IN  /\ fetchResult.ok
        /\ IF fetchCall = "getCredentials"
           THEN fetchResult.credentials = creds
           ELSE fetchResult.credentials = EnvVars(creds)

\* C6: within one fetch `aws sso login` runs at most once and the provider
\* at most twice; an expiry failure of the first attempt followed by a
\* successful login gives exactly one retry, whose success is the result of
\* the fetch; a failed retry, even one that reports expiry again, ends the
\* fetch with an error and starts nothing further.
C6_SingleRetry ==
    FetchCalled =>
        /\ Count(fetchResult.trace, "login") <= 1
        /\ Count(fetchResult.trace, "exec") <= 2
        /\ (FirstExpired /\ fetchScript.login) =>
              /\ fetchResult.trace = <<"exec", "login", "exec">>
              /\ fetchScript.second \in ValidOutputs => ReturnedFrom(fetchScript.second)
              /\ fetchScript.second.failed =>
                    /\ ~fetchResult.ok
                    /\ fetchResult.error.prefix = "Failed to get credentials"
        /\ ~FirstExpired => Count(fetchResult.trace, "login") = 0

C6_Witness ==
    /\ FetchCalled /\ FirstExpired /\ fetchScript.login
    /\ fetchScript.second.failed
    /\ IsSsoExpired(ErrorMessage(fetchScript.second))
    /\ ~fetchResult.ok

\* C7: when the login started by an expiry failure fails, the fetch fails
\* with the login error for that profile and the provider is not run again.
C7_LoginFailureEndsFetch ==
    (FetchCalled /\ FirstExpired /\ ~fetchScript.login) =>
        /\ ~fetchResult.ok
        /\ fetchResult.error.prefix = "SSO login failed"
        /\ fetchResult.error.profile = fetchProfile
        /\ fetchResult.trace = <<"exec", "login">>

C7_Witness ==
    /\ FetchCalled /\ FirstExpired /\ ~fetchScript.login
    /\ fetchScript.second \in ValidOutputs
    /\ ~fetchResult.ok

\* An output that parses but lacks the access key id or the secret key.
LacksRequired(response) ==
    /\ ~response.failed /\ response.json
    /\ (response.AccessKeyId = "" \/ response.SecretAccessKey = "")

\* C8: an output without the access key id or the secret key fails the
\* fetch with the invalid-format error, and nothing is started after the
\* invocation that produced it: no login, no further invocation, whatever
\* the output text says.
C8_InvalidFormatIsFinal ==
    /\ (FetchCalled /\ LacksRequired(fetchScript.first)) =>
          /\ ~fetchResult.ok
          /\ fetchResult.error.detail = "Invalid credentials format returned from AWS CLI"
          /\ fetchResult.trace = <<"exec">>
    /\ (FetchCalled /\ FirstExpired /\ fetchScript.login
            /\ LacksRequired(fetchScript.second)) =>
          /\ ~fetchResult.ok
          /\ fetchResult.error.detail = "Invalid credentials format returned from AWS CLI"
          /\ fetchResult.trace = <<"exec", "login", "exec">>

C8_Witness ==
    /\ FetchCalled /\ LacksRequired(fetchScript.first)
    /\ IsSsoExpired(fetchScript.first.text)
    /\ ~fetchResult.ok

\* The text holds the phrase in some letter case.
IncludesAnyCase(text, phrase) == Includes(ToLowerCase(text), ToLowerCase(phrase))

\* C27: an error text of the first attempt that holds the token-expired or
\* the refresh-failed phrase in any letter case, and no mention of sso,
\* starts the login; an error text that holds none of the four indicator
\* phrases in any letter case starts no login.
C27_CaseInsensitiveDetection ==
    (FetchCalled /\ fetchScript.first.failed) =>
        LET text == ErrorMessage(fetchScript.first)
        IN  /\ ( /\ \/ IncludesAnyCase(text, TOKEN_HAS_EXPIRED)
                    \/ IncludesAnyCase(text, REFRESH_FAILED)
                 /\ ~IncludesAnyCase(text, SSO_LOWER) )
                  => Count(fetchResult.trace, "login") = 1
            /\ ( /\ ~IncludesAnyCase(text, TOKEN_HAS_EXPIRED)
                 /\ ~IncludesAnyCase(text, REFRESH_FAILED)
                 /\ ~IncludesAnyCase(text, SSO_SESSION)
                 /\ ~IncludesAnyCase(text, SSO_LOWER) )
                  => Count(fetchResult.trace, "login") = 0

(***************************************************************************)
(* Properties of the file merger (SpecMerge).                              *)
(***************************************************************************)
\* Line i of a content is a key=value line of key `name`.
IsLineOf(line, name) ==
    ~IsBlankOrComment(line) /\ Matches(line) /\ MatchKey(line) = <<name>>

\* The raw value text of a key=value line.
MatchValue(line) == SubSeq(line, FirstEquals(line) + 1, Len(line))

IsCredentialLine(creds, line) ==
    \E k \in 1..Len(creds) : IsLineOf(line, creds[k][1])

Occurrences(content, line) == Cardinality({i \in 1..Len(content) : content[i] = line})

LinesOf(content, name) == {i \in 1..Len(content) : IsLineOf(content[i], name)}

Merged == Len(mergeHistory) >= 2 /\ mergeHistory[1] # Absent

\* K is a key of the credentials that the file holds with another value.
Stale(k) ==
    \E i \in LinesOf(mergeHistory[1], mergeCreds[k][1]) :
        MatchValue(mergeHistory[1][i]) # <<mergeCreds[k][2]>>

\* The lines that are no line of a key of the credentials keep their text
\* and their position.
OtherLinesKept ==
    /\ Len(mergeHistory[2]) >= Len(mergeHistory[1])
    /\ \A i \in 1..Len(mergeHistory[1]) :
          ~IsCredentialLine(mergeCreds, mergeHistory[1][i])
              => mergeHistory[2][i] = mergeHistory[1][i]

C10_ChangedThenUnchanged ==
    /\ Len(mergeReturns) >= 1 =>
          mergeReturns[1].defined /\ mergeReturns[1].changed
    /\ Len(mergeReturns) >= 2 =>
          mergeReturns[2].defined /\ ~mergeReturns[2].changed

\* An existing file merged with the empty credential set.
EmptyMerge == Merged /\ mergeCreds = <<>>

\* The content of the file is the same, line for line, after such a merge.
EmptyMergeKeepsContent == EmptyMerge => mergeHistory[2] = mergeHistory[1]

\* C11: merging the empty credential set into an existing file leaves its
\* content as it was and the call reports changed=false.
C11_EmptyCredentialsNoOp ==
    /\ EmptyMergeKeepsContent
    /\ EmptyMerge => mergeReturns[1].defined /\ ~mergeReturns[1].changed

\* K is a key of the credentials on several lines of the file.
Duplicated(k) == Cardinality(LinesOf(mergeHistory[1], mergeCreds[k][1])) >= 2

LinesRead == IF mergeHistory[1] = Absent THEN <<>> ELSE mergeHistory[1]

\* A key=value line of key `name`, as a reader of the file sees it: not
\* blank, no comment, and `name` is what stands before its first "=".
HoldsKey(line, name) ==
    ~IsBlankOrComment(line) /\ FirstEquals(line) >= 2 /\ MatchKey(line) = <<name>>

KeyLines(content, name) == {i \in 1..Len(content) : HoldsKey(content[i], name)}

\* The credentials whose key is on no line of the file, in key order.
Missing == SelectSeq(mergeCreds, LAMBDA kv : KeyLines(LinesRead, kv[1]) = {})

\* The file had lines and the last of them is not the empty line.
EndsUnseparated == LinesRead # <<>> /\ LinesRead[Len(LinesRead)] # EmptyLine

\* C25: the keys of the credentials that are on no line of the file are
\* appended after the last original line, one key=value line per key in the
\* key order of the credentials, after exactly one empty separator line
\* when the file had lines and its last line is not empty, and after no
\* added separator otherwise; a key that is on a line of the file is never
\* appended (it has as many lines after the merge as before).
C25_NewKeysAppended ==
    Len(mergeHistory) >= 2 =>
        LET after    == mergeHistory[2]
            appended == (IF EndsUnseparated THEN <<EmptyLine>> ELSE <<>>)
                        \o [i \in 1..Len(Missing) |->
                               KeyValueLine(Missing[i][1], Missing[i][2])]
        IN  /\ Missing # <<>> =>
                  /\ Len(after) = Len(LinesRead) + Len(appended)
                  /\ SubSeq(after, Len(LinesRead) + 1, Len(after)) = appended
            /\ (Missing = <<>> /\ LinesRead # <<>>) => Len(after) = Len(LinesRead)
            /\ \A k \in 1..Len(mergeCreds) :
                  KeyLines(LinesRead, mergeCreds[k][1]) # {} =>
                      Cardinality(KeyLines(after, mergeCreds[k][1]))
                          = Cardinality(KeyLines(LinesRead, mergeCreds[k][1]))

\* C30: merging the same credentials a second time writes the content the
\* first merge wrote, whatever the file was before the first merge.
C30_MergeIdempotent ==
    Len(mergeHistory) >= 3 => mergeHistory[3] = mergeHistory[2]

\* Two merges of which the first one rewrote a line and appended a key.
C30_Witness ==
    /\ Len(mergeHistory) >= 3
    /\ mergeHistory[1] # Absent
    /\ \E k \in 1..Len(mergeCreds) : Stale(k)
    /\ Missing # <<>>
    /\ Len(mergeHistory[2]) > Len(mergeHistory[1])
    /\ mergeHistory[3] = mergeHistory[2]

(***************************************************************************)
(* Spec: one invocation of a sync command.                                 *)
(***************************************************************************)
Init ==
    FetchIdle /\ MergeIdle /\ ApiIdle /\ ReplIdle /\ SettingsIdle /\ (InitRefresh \/ InitPostmanSync)

Next ==
    \/ RefreshStart \/ RefreshFetch \/ RefreshWrite \/ RefreshComplete
    \/ PostmanSyncStart \/ SyncFetch \/ SyncGetResponse \/ SyncPutResponse
    \/ SyncComplete

Spec == Init /\ [][Next]_vars

(***************************************************************************)
(* Properties of the sync commands (Spec).                                 *)
(***************************************************************************)
ProfilesMapped == {mappings[i][2] : i \in 1..Len(mappings)}

FilesOf(profile) == {mappings[i][1] : i \in {j \in 1..Len(mappings) : mappings[j][2] = profile}}

FetchesOf(profile) == {i \in 1..Len(fetchLog) : fetchLog[i].profile = profile}

WritesOf(path) == {i \in 1..Len(writeLog) : writeLog[i].path = path}

\* The console lines about one destination.
ReportOf(destination) == SelectSeq(report, LAMBDA line : line[1] = destination)

FetchFailed(profile) == \E i \in FetchesOf(profile) : ~fetchLog[i].ok

RefreshDone == command = "refresh" /\ pc = "done"

\* C1: a refresh that passed its checks fetches the credentials of every
\* mapped profile exactly once, and every file of a profile whose fetch
\* succeeded is handed the credentials of that fetch.
C1_OneFetchPerProfile ==
    (RefreshDone /\ outcome \notin {"No mappings configured", "AWS CLI is not available"}) =>
        \A p \in ProfilesMapped :
            /\ Cardinality(FetchesOf(p)) = 1
            /\ \A i \in FetchesOf(p) :
                  fetchLog[i].ok =>
                      \A f \in FilesOf(p) :
                          \E w \in WritesOf(f) :
                              writeLog[w].credentials = fetchLog[i].credentials

\* C2: a postman sync fetches the credentials of a profile at most once.
C2_AtMostOneFetchPerProfile ==
    command = "postman sync" =>
        \A p \in PostmanProfiles : Cardinality(FetchesOf(p)) <= 1

\* The one console line a destination of a fetched profile gets: its own write.
WriteOutcome(f) ==
    /\ Cardinality(WritesOf(f)) = 1
    /\ \A w \in WritesOf(f) :
          ReportOf(f) = << <<f, IF writeLog[w].ok THEN "updated" ELSE "failed">> >>

\* C3: when the fetch for a profile fails in a refresh, every file of that
\* profile is reported failed and none is written; every other profile is
\* still fetched and its files get the outcome of their own fetch and
\* write; the run goes to its end.
C3_FailedFetchIsolated ==
    RefreshDone =>
        \A p \in ProfilesMapped :
            FetchFailed(p) =>
                /\ \A f \in FilesOf(p) :
                      /\ ReportOf(f) = << <<f, "failed">> >>
                      /\ WritesOf(f) = {}
                      /\ fs[f] = InitialFiles[f]
                /\ \A q \in ProfilesMapped \ {p} :
                      /\ Cardinality(FetchesOf(q)) = 1
                      /\ \A f \in FilesOf(q) :
                            IF FetchFailed(q)
                            THEN ReportOf(f) = << <<f, "failed">> >> /\ WritesOf(f) = {}
                            ELSE WriteOutcome(f)
                /\ outcome = "Refresh complete"

C3_Witness ==
    /\ RefreshDone
    /\ \E p, q \in ProfilesMapped :
          /\ FetchFailed(p) /\ Cardinality(FilesOf(p)) = 2
          /\ ~FetchFailed(q)
          /\ \E f \in FilesOf(q) : ReportOf(f) = << <<f, "updated">> >>
          /\ fetchLog[1].profile = p

\* C4: when the write of one file throws in a refresh, that file is the one
\* counted as failed; the other files of its profile are still written,
\* the later profiles are still fetched, and its profile is fetched once.
C4_FailedWriteIsolated ==
    RefreshDone =>
        \A w \in 1..Len(writeLog) :
            ~writeLog[w].ok =>
                /\ ReportOf(writeLog[w].path) = << <<writeLog[w].path, "failed">> >>
                /\ \A p \in ProfilesMapped :
                      /\ Cardinality(FetchesOf(p)) = 1
                      /\ ~FetchFailed(p) =>
                            \A f \in FilesOf(p) : Cardinality(WritesOf(f)) = 1
                /\ errorCount =
                      Cardinality({v \in 1..Len(writeLog) : ~writeLog[v].ok})
                      + Cardinality({i \in 1..Len(mappings) : FetchFailed(mappings[i][2])})
                /\ outcome = "Refresh complete"

C4_Witness ==
    /\ RefreshDone
    /\ Len(writeLog) = 3
    /\ ~writeLog[1].ok /\ writeLog[2].ok /\ writeLog[3].ok
    /\ Len(fetchLog) = 2
    /\ Cardinality(FilesOf(fetchLog[1].profile)) = 2
    /\ errorCount = 1

\* C5: when the CLI check fails the command ends there with the one error:
\* no credential fetch, no file write, no request to the Postman API, no
\* destination reported, files and environments as they were.
C5_NothingDoneWithoutCli ==
    outcome = "AWS CLI is not available" =>
        /\ pc = "done"
        /\ fetchLog = <<>> /\ writeLog = <<>> /\ apiLog = <<>> /\ report = <<>>
        /\ successCount = 0 /\ errorCount = 0
        /\ fs = InitialFiles /\ remote = InitialRemote

C5_Witness ==
    /\ outcome = "AWS CLI is not available"
    /\ command = "postman sync"
    /\ Len(postmanMappings) >= 2

\* The place of a file in the mapping list.
MappingIndex(path) == CHOOSE i \in 1..Len(mappings) : mappings[i][1] = path

\* The distinct profile names in the order in which they first appear in
\* the mapping list.
FirstAppearances ==
    LET firsts == SelectSeq([i \in 1..Len(mappings) |-> i],
                            LAMBDA i : \A j \in 1..(i - 1) : mappings[j][2] # mappings[i][2])
    IN  [n \in 1..Len(firsts) |-> mappings[firsts[n]][2]]

\* C24: a refresh fetches the profiles in the order in which the distinct
\* profile names first appear in the mapping list, whatever the names are,
\* and writes the files of a profile in the order of the mapping list.
C24_GroupsInInsertionOrder ==
    command = "refresh" =>
        /\ Len(fetchLog) <= Len(FirstAppearances)
        /\ \A i \in 1..Len(fetchLog) : fetchLog[i].profile = FirstAppearances[i]
        /\ \A i, j \in 1..Len(writeLog) :
              (i < j /\ mappings[MappingIndex(writeLog[i].path)][2]
                          = mappings[MappingIndex(writeLog[j].path)][2])
                 => MappingIndex(writeLog[i].path) < MappingIndex(writeLog[j].path)

(***************************************************************************)
(* Properties of the remote merge (Spec): at "sync put" the PUT request of *)
(* updateAwsCredentials is in flight; currentEnv is what it submits and    *)
(* remote still holds what the GET request fetched.                        *)
(***************************************************************************)
Submitting == command = "postman sync" /\ pc = "sync put"

FetchedEnv == remote[entries[gi].id]

NewCredentials == PostmanCredentials(credentials)

KeyCount(values, key) == Cardinality({i \in 1..Len(values) : values[i].key = key})

\* The entries of a list that are neither reserved nor of a repeated key of
\* the fetched list, in the order of the list.
Unrelated(values) ==
    SelectSeq(values, LAMBDA v : ~IsAwsVar(v.key) /\ KeyCount(FetchedEnv.values, v.key) = 1)

NewValue(key) ==
    IF key = "aws_access_key_id" THEN NewCredentials.aws_access_key_id
    ELSE IF key = "aws_access_secret" THEN NewCredentials.aws_access_secret
    ELSE NewCredentials.aws_session_token

\* C13: the submitted list holds the entries that are neither reserved nor
\* duplicated as they were fetched and in their order, the name is the
\* fetched one, every new credential value is there, and every entry of a
\* reserved key carries the new value of that key.
C13_UnrelatedEntriesPreserved ==
    Submitting =>
        /\ Unrelated(currentEnv.values) = Unrelated(FetchedEnv.values)
        /\ currentEnv.name = FetchedEnv.name
        /\ \A i \in 1..Len(AWS_VAR_NAMES) :
              NewValue(AWS_VAR_NAMES[i]) # "" =>
                  \E j \in 1..Len(currentEnv.values) :
                      /\ currentEnv.values[j].key = AWS_VAR_NAMES[i]
                      /\ currentEnv.values[j].value = NewValue(AWS_VAR_NAMES[i])
        /\ \A j \in 1..Len(currentEnv.values) :
              IsAwsVar(currentEnv.values[j].key) =>
                  currentEnv.values[j].value = NewValue(currentEnv.values[j].key)

C13_Witness ==
    /\ Submitting
    /\ Len(Unrelated(FetchedEnv.values)) >= 2
    /\ \E j \in 1..Len(FetchedEnv.values) :
          /\ FetchedEnv.values[j].key = "aws_access_key_id"
          /\ FetchedEnv.values[j].value # NewValue("aws_access_key_id")

\* C14: for each reserved key the submitted list holds exactly one entry,
\* enabled and with the new value, when the new credentials have a value
\* for it, and no entry of that key otherwise.
C14_OneEntryPerCredential ==
    Submitting =>
        \A i \in 1..Len(AWS_VAR_NAMES) :
            LET key == AWS_VAR_NAMES[i]
            IN  IF NewValue(key) # ""
                THEN /\ KeyCount(currentEnv.values, key) = 1
                     /\ \A j \in 1..Len(currentEnv.values) :
                           currentEnv.values[j].key = key =>
                               /\ currentEnv.values[j].enabled
                               /\ currentEnv.values[j].value = NewValue(key)
                ELSE KeyCount(currentEnv.values, key) = 0

C14_Witness ==
    /\ Submitting
    /\ NewValue("aws_session_token") = ""
    /\ KeyCount(FetchedEnv.values, "aws_session_token") = 1
    /\ KeyCount(currentEnv.values, "aws_session_token") = 0
    /\ KeyCount(currentEnv.values, "aws_access_key_id") = 1

\* The last entry of a key in a list.
LastOf(values, key) ==
    values[CHOOSE i \in 1..Len(values) :
              /\ values[i].key = key
              /\ \A j \in (i + 1)..Len(values) : values[j].key # key]

\* C26: for every key of a non-credential entry of the fetched list the
\* submitted list holds exactly one entry, and that entry is the last
\* occurrence of the key in the fetched list, with its value and its
\* enabled flag.
C26_LastOccurrenceKept ==
    Submitting =>
        \A j \in 1..Len(FetchedEnv.values) :
            LET key == FetchedEnv.values[j].key
            IN  ~IsAwsVar(key) =>
                   /\ KeyCount(currentEnv.values, key) = 1
                   /\ LastOf(currentEnv.values, key) = LastOf(FetchedEnv.values, key)

\* A fetched list with two entries of one key that differ in value and in
\* enabled flag.
C26_Witness ==
    /\ Submitting
    /\ \E i, j \in 1..Len(FetchedEnv.values) :
          /\ i < j
          /\ ~IsAwsVar(FetchedEnv.values[i].key)
          /\ FetchedEnv.values[i].key = FetchedEnv.values[j].key
          /\ FetchedEnv.values[i].value # FetchedEnv.values[j].value
          /\ FetchedEnv.values[i].enabled # FetchedEnv.values[j].enabled
          /\ KeyCount(currentEnv.values, FetchedEnv.values[i].key) = 1

(***************************************************************************)
(* Properties of the report of a refresh (Spec).                           *)
(***************************************************************************)
\* A file whose write succeeded and left its content as it was.
WrittenUnchanged(f) ==
    /\ \E w \in WritesOf(f) : writeLog[w].ok
    /\ fs[f] = InitialFiles[f]

\* A file whose write succeeded and changed its content.
WrittenChanged(f) ==
    /\ \E w \in WritesOf(f) : writeLog[w].ok
    /\ fs[f] # InitialFiles[f]

\* C15: a refresh reports a destination whose merge changed nothing as
\* unchanged, one whose merge changed the file as updated and the others
\* as failed, and its updated total counts the changed destinations only.
C15_UnchangedReported ==
    (RefreshDone /\ outcome = "Refresh complete") =>
        /\ \A f \in Paths :
              /\ WrittenUnchanged(f) => ReportOf(f) = << <<f, "unchanged">> >>
              /\ WrittenChanged(f) => ReportOf(f) = << <<f, "updated">> >>
        /\ successCount = Cardinality({f \in Paths : WrittenChanged(f)})

(***************************************************************************)
(* Properties of the interactive loop (SpecRepl).                          *)
(***************************************************************************)
\* C16: at most one command handler is in progress at any time, and every
\* request a command sends carries the API key that command itself handed
\* to setApiKey.
C16_SequentialExecution ==
    /\ Len(handlers) <= 1
    /\ \A r \in 1..Len(requests) : requests[r].key = requests[r].own

(***************************************************************************)
(* Properties of the settings store (SpecSettings).                        *)
(***************************************************************************)
FileRemoved == \E i \in 1..Len(calls) : calls[i].op = "unlink"

MappingCalls(envPath) ==
    {i \in 1..Len(calls) :
        calls[i].op \in {"addMapping", "removeMapping"} /\ calls[i].path = envPath}

\* The profile the calls made so far leave a path with, "" for none.
ExpectedProfile(envPath) ==
    IF MappingCalls(envPath) = {} THEN ""
    ELSE LET last == CHOOSE i \in MappingCalls(envPath) :
                        \A j \in MappingCalls(envPath) : j <= i
         IN  IF calls[last].op = "addMapping" THEN calls[last].profile ELSE ""

\* The profile the settings file holds for a path, "" for none.
StoredProfile(envPath) ==
    IF HasOwn(settingsFile.content.mappings, envPath)
    THEN settingsFile.content.mappings[OwnIndex(settingsFile.content.mappings, envPath)][2]
    ELSE ""

\* C17: after any sequence of addMapping and removeMapping calls every
\* path has at most one profile in the store: the profile of its latest
\* addMapping when no removeMapping of it followed, and none otherwise.
C17_MappingsAreAFunction ==
    ~FileRemoved =>
        \A envPath \in SettingsPaths :
            /\ Cardinality({i \in 1..Len(settingsFile.content.mappings) :
                               settingsFile.content.mappings[i][1] = envPath}) <= 1
            /\ StoredProfile(envPath) = ExpectedProfile(envPath)

\* C18: a readSettings call that finds no settings file returns the
\* default settings and leaves a file holding them, whatever was done
\* before in the process.
C18_MissingFileGivesDefaults ==
    \A i \in 1..Len(calls) :
        (calls[i].op = "readSettings" /\ calls[i].missing) =>
            /\ calls[i].returned = InitialDefaults
            /\ i = Len(calls) => settingsFile = SettingsFileOf(InitialDefaults)

\* The step is an updatePostmanMappingName call.
NameUpdated ==
    /\ Len(calls') = Len(calls) + 1
    /\ calls'[Len(calls')].op = "updatePostmanMappingName"

\* The IDs that have a mapping in a postmanMappings object, in its order.
MappedIds(postmanObject) == [i \in 1..Len(postmanObject) |-> postmanObject[i][1]]

\* C23: an updatePostmanMappingName call leaves the settings with the
\* mappings of the same IDs in the same order as it read them, every
\* mapping keeping its profile and every mapping of another ID its name;
\* the mapping of the given ID, when there is one, has the new name, and an
\* ID without a mapping is still without one.  Nothing else of the
\* settings changes.
C23_OnlyTheNameChanges ==
    [][NameUpdated =>
          LET call   == calls'[Len(calls')]
              before == call.returned
              after  == settingsFile'.content
              was    == before.postmanMappings
              now    == after.postmanMappings
          IN  /\ settingsFile'.exists
              /\ MappedIds(now) = MappedIds(was)
              /\ \A i \in 1..Len(was) :
                    /\ now[i][2].awsProfile = was[i][2].awsProfile
                    /\ now[i][2].id = was[i][2].id
                    /\ now[i][2].environmentName =
                          IF was[i][1] = call.path THEN call.profile
                          ELSE was[i][2].environmentName
              /\ after.mappings = before.mappings
              /\ after.apiKey = before.apiKey
              /\ after.logging = before.logging]_vars

\* Two mappings are stored and the name of one of them has been changed.
C23_Witness ==
    /\ calls # <<>>
    /\ LET call == calls[Len(calls)]
           now  == settingsFile.content.postmanMappings
       IN  /\ call.op = "updatePostmanMappingName"
           /\ call.path = "env-1"
           /\ Len(now) = 2
           /\ \E i \in 1..2 :
                 /\ now[i][1] = "env-1"
                 /\ now[i][2].environmentName = "New Name"
                 /\ now[i][2].awsProfile = "dev"

\* The same for handlePostmanSync, whose only settings operation is the
\* updatePostmanMappingName of line 479 (Spec): no step of a sync run adds
\* or removes a mapping or changes a profile.
SyncRunKeepsMappings ==
    [][command = "postman sync" =>
          /\ Len(postmanMappings') = Len(postmanMappings)
          /\ \A i \in 1..Len(postmanMappings) :
                /\ postmanMappings'[i].id = postmanMappings[i].id
                /\ postmanMappings'[i].awsProfile = postmanMappings[i].awsProfile
          /\ mappings' = mappings]_vars

(***************************************************************************)
(* The audit log during a sync run.                                        *)
(***************************************************************************)
\* The handler got past its checks and went through its destinations.
RunStarted == profileToFiles # <<>> \/ entries # <<>>

\* The destinations of the run: the mapped files, or the selected
\* environments.
Destinations ==
    IF command = "refresh" THEN {mappings[i][1] : i \in 1..Len(mappings)}
    ELSE {entries[i].id : i \in 1..Len(entries)}

Reported(status) == Cardinality({i \in 1..Len(report) : report[i][2] = status})

\* C19: a failure to write the audit log never propagates to the caller
\* and never changes a sync run.  Whether or not log writes failed: no
\* exception leaves the handler; a run that got past its checks ends with
\* its summary and has handled every destination exactly once; a refresh
\* wrote to exactly the files whose profile's credentials were fetched; and
\* the counts are the numbers of destinations reported updated and failed.
C19_LogFailureIsolated ==
    /\ outcome # Uncaught
    /\ successCount = Reported("updated")
    /\ errorCount = Reported("failed")
    /\ (pc = "done" /\ RunStarted) =>
          /\ outcome = (IF command = "refresh" THEN "Refresh complete" ELSE "Sync complete")
          /\ \A d \in Destinations : Len(ReportOf(d)) = 1
          /\ command = "refresh" =>
                \A i \in 1..Len(mappings) :
                   Cardinality(WritesOf(mappings[i][1])) =
                      (IF FetchFailed(mappings[i][2]) THEN 0 ELSE 1)

\* A refresh whose first file could not be written and whose log write for
\* that failure failed too went on to update the next file and to the
\* summary.
C19_Witness ==
    /\ RefreshDone /\ outcome = "Refresh complete"
    /\ Len(writeLog) >= 2 /\ ~writeLog[1].ok /\ writeLog[2].ok
    /\ Len(logCalls) >= 2 /\ logCalls[1].failed
    /\ report[1][2] = "failed" /\ report[2][2] = "updated"
    /\ successCount = 1 /\ errorCount = 1

\* The command ended after its precondition checks (mappings configured,
\* API key present, provider CLI available) had passed.
CompletedPastChecks ==
    /\ pc = "done"
    /\ outcome \in {"Refresh complete", "Sync complete", "Error during refresh"}

\* The destinations selected for the run.
Selected ==
    IF command = "refresh" THEN {mappings[i][1] : i \in 1..Len(mappings)}
    ELSE {postmanMappings[i].id : i \in 1..Len(postmanMappings)} \cap
         (IF specificEnvId = "" THEN {postmanMappings[i].id : i \in 1..Len(postmanMappings)}
          ELSE {specificEnvId})

\* C29: when a run that passed its precondition checks has ended, every
\* selected destination has exactly one report line, updated or failed,
\* and the succeeded count plus the failed count is the number of selected
\* destinations.
C29_EveryDestinationReportedOnce ==
    CompletedPastChecks =>
        /\ \A d \in Selected :
              /\ Len(ReportOf(d)) = 1
              /\ ReportOf(d)[1][2] \in {"updated", "failed"}
        /\ successCount + errorCount = Cardinality(Selected)

(***************************************************************************)
(* The log file, call by call.                                             *)
(***************************************************************************)
\* What a call appended: the text after the end of the earlier text.
Appended(call) == SubSeq(call.after.text, Len(call.before.text) + 1, Len(call.after.text))

EarlierContentIntact(call) ==
    /\ Len(call.after.text) >= Len(call.before.text)
    /\ SubSeq(call.after.text, 1, Len(call.before.text)) = call.before.text

\* One line, ended by its only "\n", that begins with "[timestamp] ".
IsTimestampedLine(text) ==
    /\ Len(text) >= 5
    /\ text[1] = "[" /\ text[3] = "]" /\ text[4] = " "
    /\ text[Len(text)] = "\n"
    /\ \A j \in 1..(Len(text) - 1) : text[j] # "\n"

\* C20: while logging is disabled a log call leaves the log file unchanged
\* and does not create it; while logging is enabled each log call (whose
\* write does not fail) appends exactly one timestamped line at the end of
\* the log file and leaves all earlier content intact.
C20_OneLinePerCall ==
    \A i \in 1..Len(logCalls) :
       LET call == logCalls[i]
       IN  /\ EarlierContentIntact(call)
           /\ ~call.config.enabled => call.after = call.before
           /\ (call.config.enabled /\ ~call.failed) =>
                 /\ call.after.exists
                 /\ IsTimestampedLine(Appended(call))

(***************************************************************************)
(* Properties of the Postman client on a shared API (SpecApi).             *)
(***************************************************************************)
\* updateAwsCredentials was called and has ended.
MergeEnded == command = "updateAwsCredentials" /\ pc = "done"

\* The GET request was answered, without an environment in the answer.
FetchedNothing == fetchedEnv = <<NoEnvironment>>

PutSent == \E i \in 1..Len(apiLog) : apiLog[i][1] = "PUT"

\* C21: an updateAwsCredentials call made without an environment ID throws
\* "Environment ID is required", one whose GET request is answered without
\* an environment throws "Environment <id> not found", and in both cases
\* no PUT request has been sent.
C21_NoUpdateWithoutEnvironment ==
    (command = "updateAwsCredentials" /\ pc # "call"
        /\ (apiEnvironmentId = "" \/ FetchedNothing)) =>
        /\ MergeEnded
        /\ apiResult =
              ApiThrown(IF apiEnvironmentId = "" THEN <<"Environment ID is required">>
                        ELSE <<"Environment ", apiEnvironmentId, " not found">>)
        /\ ~PutSent
        /\ apiEnvironmentId = "" => apiLog = <<>>

\* The GET request for an ID the API has no environment for was sent and
\* answered, and the call has ended.
C21_Witness ==
    /\ MergeEnded
    /\ FetchedNothing
    /\ apiLog = <<Request("GET", apiEnvironmentId)>>
    /\ apiResult.status = "thrown"

\* getEnvironmentName was called, on its own or by `postman add`, and the
\* handler has ended.
LookupEnded == command \in {"getEnvironmentName", "postman add"} /\ pc = "done"

\* No name was obtained: the GET request was not sent or failed, or it was
\* answered without an environment.
LookupFailed == fetchedEnv = <<>> \/ FetchedNothing

\* `postman add` got past its checks of the arguments and of the API key.
AddAccepted == command = "postman add" /\ apiEnvironmentId # "" /\ postmanApiKey # ""

StoredFor(id) == SelectSeq(postmanMappings, LAMBDA mapping : mapping.id = id)

\* C22: a getEnvironmentName call never ends by throwing, and returns null
\* whenever no name was obtained; a `postman add` that is past its checks
\* then still ends with exactly one mapping stored for the ID, holding the
\* given profile and the name null, and prints the ID as display name.
C22_LookupFailureNotFatal ==
    LookupEnded =>
        /\ apiResult.status # "thrown"
        /\ command = "getEnvironmentName" => apiResult.status = "returned"
        /\ (LookupFailed /\ apiResult.status = "returned") =>
              apiResult.environmentName = ""
        /\ (AddAccepted /\ LookupFailed) =>
              /\ StoredFor(apiEnvironmentId) =
                     <<PostmanMapping(apiEnvironmentId, apiAwsProfile, "")>>
              /\ outcome = apiEnvironmentId
        /\ AddAccepted => apiResult.status = "returned"

\* A `postman add` whose GET request was sent and not answered with an
\* environment has ended.
C22_Witness ==
    /\ LookupEnded /\ AddAccepted /\ LookupFailed
    /\ apiLog = <<Request("GET", apiEnvironmentId)>>
    /\ StoredFor(apiEnvironmentId) # <<>>

\* updateAwsCredentials has returned.
Updated == MergeEnded /\ apiResult.status = "returned"

\* The changes other users made while the call was at `position`.
ChangedAt(position) ==
    {i \in 1..Len(otherRequests) : otherRequests[i].at = position}

\* The environment shows the n-th change of the other users.
Shows(environment, n) ==
    IF otherRequests[n].change = "add"
    THEN \E i \in 1..Len(environment.values) :
            environment.values[i] = Variable("team_url", OtherTexts[n], TRUE)
    ELSE environment.name = OtherTexts[n]

====
